---- MODULE Spec2Model ----
(***************************************************************************)
(* Model of the extraction worker's browser resource controller:           *)
(*   - BrowserPool (src/src/browserPool.ts, lines 1-273): lazy browser     *)
(*     handle, shared launch promise, circuit breaker, idle / max-age      *)
(*     restart, priority queue with a concurrency bound;                   *)
(*   - the request adapter (src/src/routes/extract.ts, lines 131-278) and  *)
(*     extractM3u8 (src/src/extractor.ts, lines 257-263) as far as they    *)
(*     decide the priority of a submission, and the route's answer to what *)
(*     doExtraction (src/src/extractor.ts, lines 75-255) returned;         *)
(*   - shutdown() (src/unnamed/part_003, lines 72-118) as far as it calls  *)
(*     browserPool.close().                                                *)
(*                                                                         *)
(* Every process of Procs is a logical caller.  A caller is idle ("new")   *)
(* or runs one of three operations: withLimit(fn, priority) with an opaque *)
(* fn, POST /extract (extractM3u8 -> withLimit(doExtraction)), or a direct *)
(* getBrowser() call on the exported pool.  Each action is one synchronous *)
(* run of the code between two suspension points (await).  The runtime is  *)
(* a single-threaded event loop: continuations that are ready to resume    *)
(* (promise reactions) all run before the next event (request, timer, I/O  *)
(* completion) is taken, in any order among themselves.                    *)
(***************************************************************************)
EXTENDS Integers, Sequences, FiniteSets, TLC

\* ---------------------------------------------------------------- bounds
NumProcs == 4
NumCallers == 3
MaxHandles == 3
TickMs == 10000
MaxTime == 40000
PoolMaxTime == 20000
MaxLaunchFailures == 4
\* BROWSER_IDLE_TIMEOUT and BROWSER_MAX_AGE are read from the environment
\* (defaults 60000 and 7200000); here both are shorter than one clock step
IDLE_TIMEOUT_MS == 5000
MAX_AGE_MS == 5000

\* ----------------------------------------------------- program constants
MAX_CONCURRENT == 2
CIRCUIT_BREAKER_THRESHOLD == 3
CIRCUIT_BREAKER_RESET_MS == 30000
PRIORITY_NORMAL == 0
PRIORITY_HIGH == 10

Procs == 1..NumProcs
Callers == 1..NumCallers
Handles == 1..MaxHandles
NoProc == 0
NoHandle == 0
NoReq == 0 - 1

\* requests that reach the route handler during one extraction, numbered in
\* the order in which their handlers start
NumRequests == 3
Reqs == 1..NumRequests
NoRequest == 0

\* m3u8Promise before resolvePromise was called
Unresolved == [st |-> "pending", url |-> NoRequest, headers |-> NoRequest,
               cookies |-> "undefined"]

\* index.ts: the watchdog's period, and the two durations read from the
\* environment (CIRCUIT_BREAKER_EXIT_THRESHOLD, SHUTDOWN_TIMEOUT), set here
\* to a few clock steps
WATCHDOG_INTERVAL == 10000
CIRCUIT_BREAKER_EXIT_THRESHOLD == 20000
SHUTDOWN_TIMEOUT == 20000
NoTime == 0 - 1
NoExit == 0 - 1

\* GET /health before any request
NoHealth == [status |-> 0, text |-> "none", at |-> NoTime]

\* a request as the route handler's rules see it: its resource type, the
\* kind of its URL, and which of BLOCK_PATTERNS, PLAYER_DOMAIN_REGEX and
\* TELEMETRY_PATTERN its URL matches
ResourceTypes == {"document", "script", "xhr", "fetch", "image", "font",
                  "stylesheet", "media"}
Requests == [resourceType : ResourceTypes, kind : {"m3u8", "ts.m3u8", "other"},
             shouldBlock : BOOLEAN, isPlayerScript : BOOLEAN, telemetry : BOOLEAN]
NoneYet == [resourceType |-> "document", kind |-> "other", shouldBlock |-> FALSE,
            isPlayerScript |-> FALSE, telemetry |-> FALSE]

\* signals sent to the process, and the clients whose requests it serves
MaxSignals == 2
NumClients == 2
Clients == 1..NumClients

VARIABLES
  browser,               \* this.browser: a handle or NoHandle (null)
  launching,             \* this.launching: the caller owning the launch promise, or NoProc
  launchTime,            \* this.launchTime
  activeCount,           \* this.activeCount
  idleTimer,             \* this.idleTimer: "null", "armed" (pending), "stale" (fired, field not reset)
  idleDeadline,          \* time at which the armed idle timer fires
  consecutiveFailures,   \* this.consecutiveFailures
  circuitOpenUntil,      \* this.circuitOpenUntil
  queue,                 \* PQueue's waiting entries: sequence of [id, priority]
  pending,               \* PQueue's count of started, unfinished jobs
  browserLaunchFailures, \* metrics counter
  circuitBreakerOpen,    \* metrics gauge
  now,                   \* Date.now()
  hstate,                \* driver: state of every browser handle
  lstate,                \* per caller: state of the chromium.launch() promise it started
  lres,                  \* per caller: handle its launch resolved with
  pc,                    \* per caller: position in its operation
  kind,                  \* per caller: "task", "extract", "direct"
  prio,                  \* per caller: priority its withLimit call passed to queue.add
  req,                   \* per caller: priority chosen by the request adapter (NoReq if none)
  waitOn,                \* per caller: launch owner joined / handle whose close it awaits
  res,                   \* per caller: outcome of getBrowser
  got,                   \* per caller: handle returned by getBrowser
  subOrder,              \* waiting callers in order of submission (history)
  admitInfo,             \* the last admission: who, and who was waiting then (history)
  pendingTimers,         \* number of scheduled idle timeouts neither fired nor cleared
  cause,                 \* per caller: how its extraction ended (history)
  response,              \* per caller: the answer of POST /extract and what it counted
  submitted,             \* callers that have submitted a task (history)
  closeState,            \* browserPool.close(): not called, awaiting a handle's close, completed
  xpc,                   \* doExtraction: position of the main flow
  context,               \* doExtraction: the context variable: "null", "open", "closed"
  resolved,              \* doExtraction: the resolved flag
  timeoutId,             \* doExtraction: "null", "armed" (pending), "fired" (ran, id kept)
  m3u8Promise,           \* doExtraction: state and value of m3u8Promise
  resolveCalls,          \* number of calls of resolvePromise (history)
  hpc,                   \* per request: position of its route handler
  rkind,                 \* per request: "m3u8", "ts.m3u8" or "other", by its URL
  cookieString,          \* per request: the cookieString of its handler
  winner,                \* the request whose handler set the resolved flag (history)
  hlog,                  \* driver calls and resolution made by the winner's handler (history)
  contextCloses,         \* number of calls of context.close() (history)
  xret,                  \* doExtraction: the value returned
  teardownErrors,        \* teardown calls of the finally block that rejected (history)
  circuitOpenSince,      \* index.ts: circuitOpenSince (NoTime for null)
  watchdogTimer,         \* index.ts: the watchdog interval: "running" or "cleared"
  lastPoll,              \* time of the last run of the interval's callback
  shutdownInProgress,    \* index.ts: shutdownInProgress
  forceDeadline,         \* index.ts: time at which forceTimeout resolves (NoTime if unset)
  exitCode,              \* process.exit: NoExit while the process runs
  serverCloseCalls,      \* number of calls of server.close() (history)
  shutdownRuns,          \* number of runs of shutdown() past its guard (history)
  signals,               \* number of SIGTERM and SIGINT received (history)
  closedPollAt,          \* time of the last watchdog poll that found the circuit closed (history)
  healthResponse,        \* the last answer of GET /health, and the time it was given
  request,               \* a request reaching the route handler's rules
  decision               \* what the rules did with it: "none", "manifest", "abort", "continue"

vars == <<browser, launching, launchTime, activeCount, idleTimer, idleDeadline,
          consecutiveFailures, circuitOpenUntil, queue, pending,
          browserLaunchFailures, circuitBreakerOpen, now, hstate, lstate, lres,
          pc, kind, prio, req, waitOn, res, got, subOrder, admitInfo,
          pendingTimers, cause, response, submitted, closeState,
          xpc, context, resolved, timeoutId, m3u8Promise, resolveCalls, hpc,
          rkind, cookieString, winner, hlog, contextCloses, xret, teardownErrors,
          circuitOpenSince, watchdogTimer, lastPoll, shutdownInProgress,
          forceDeadline, exitCode, serverCloseCalls, shutdownRuns, signals,
          closedPollAt, healthResponse, request, decision>>

poolVars == <<browser, launching, launchTime>>
timerVars == <<idleTimer, idleDeadline, pendingTimers>>
routeVars == <<cause, response>>
circuitVars == <<consecutiveFailures, circuitOpenUntil, browserLaunchFailures, circuitBreakerOpen>>
queueVars == <<queue, pending, subOrder, admitInfo>>
callVars == <<waitOn, res, got>>

\* One extraction's pipeline (extractor.ts, doExtraction).
pipeVars == <<xpc, context, resolved, timeoutId, m3u8Promise, resolveCalls, hpc,
              rkind, cookieString, winner, hlog, contextCloses, xret,
              teardownErrors>>

\* The process: watchdog and shutdown (index.ts).
procVars == <<circuitOpenSince, watchdogTimer, lastPoll, shutdownInProgress,
              forceDeadline, exitCode, serverCloseCalls, shutdownRuns,
              signals, closedPollAt>>

\* The answers of GET /health and of the route handler's rules.
edgeVars == <<healthResponse, request, decision>>

\* The pool, its queue, its callers and the route.
serviceVars == <<browser, launching, launchTime, activeCount, idleTimer,
                 idleDeadline, consecutiveFailures, circuitOpenUntil, queue,
                 pending, browserLaunchFailures, circuitBreakerOpen, now,
                 hstate, lstate, lres, pc, kind, prio, req, waitOn, res, got,
                 subOrder, admitInfo, pendingTimers, cause, response,
                 submitted, closeState>>

\* ------------------------------------------------------------- helpers

\* PRIORITY_LEVELS[priorityParam ?? 'normal'] ?? PRIORITY_LEVELS.normal
PriorityParams == {"high", "normal", "invalid", "absent"}
PriorityLevel(param) ==
  IF param = "high" THEN PRIORITY_HIGH ELSE PRIORITY_NORMAL

\* extractM3u8(embedUrl, timeout = 15000) takes two parameters: the third and
\* fourth arguments of the route's call are dropped, and withLimit is called
\* without a priority, so its default (priority = 0) applies.
ExtractM3u8Priority(priority) == 0

\* variant of IsCircuitOpen: the check is missing
IsCircuitOpenUnchecked(until, t) == FALSE

\* isCircuitOpen(): this.circuitOpenUntil > Date.now()
IsCircuitOpen(until, t) == until > t

\* variant of TripsCircuit: trips one failure early
TripsCircuitEarly(failures) == failures >= CIRCUIT_BREAKER_THRESHOLD - 1

\* launchBrowserWithCircuitBreaker, catch: consecutiveFailures >= CIRCUIT_BREAKER_THRESHOLD
TripsCircuit(failures) == failures >= CIRCUIT_BREAKER_THRESHOLD

\* variant of FailuresAfterSuccess: the count is not reset
FailuresAfterSuccessKept(failures) == failures

\* launchBrowserWithCircuitBreaker, success: this.consecutiveFailures = 0
FailuresAfterSuccess(failures) == 0

\* variant of FailuresAfterFailure: after a trip the count starts again
FailuresAfterFailureRestart(failures) ==
  IF failures >= CIRCUIT_BREAKER_THRESHOLD THEN 1 ELSE failures + 1

\* launchBrowserWithCircuitBreaker, catch: this.consecutiveFailures++
FailuresAfterFailure(failures) == failures + 1

\* the error the n-th failed launch rejects with (handles are positive)
LaunchError(n) == 0 - n

\* variant of MaxAgeExceeded: the active count is not consulted
MaxAgeExceededWhileActive(age, ac) == age > MAX_AGE_MS

\* getBrowser, line 46: age > MAX_AGE_MS && this.activeCount === 0
MaxAgeExceeded(age, ac) == age > MAX_AGE_MS /\ ac = 0

\* variant of SchedulesIdleRestart: every completion schedules the timer
SchedulesIdleRestartAlways(ac) == TRUE

\* withLimit, finally: `if (this.activeCount === 0) this.scheduleIdleRestart()`
SchedulesIdleRestart(ac) == ac = 0

\* variant of ClearsReference: the handler clears the reference whichever
\* browser disconnected
ClearsReferenceAlways(current, h) == TRUE

\* the 'disconnected' handler's test: `if (this.browser === browser)`
ClearsReference(current, h) == current = h

\* variant of ReferenceAfterRestart: the old handle is closed while the pool
\* still refers to it
ReferenceAfterRestartKept(old) == old

\* restartBrowser and close: `this.browser = null` before oldBrowser.close()
ReferenceAfterRestart(old) == NoHandle

\* variant of ConcurrencyAllowsAnother: off by one
ConcurrencyAllowsAnotherOffByOne(n) == n <= MAX_CONCURRENT

\* PQueue admits another job while fewer than `concurrency` jobs are running
ConcurrencyAllowsAnother(n) == n < MAX_CONCURRENT

\* variant of Enqueue: the priority option is ignored
EnqueueAppend(q, e) == Append(q, e)

\* PQueue's priority queue: an entry is inserted before the first waiting
\* entry of strictly lower priority (behind every entry of equal priority).
Enqueue(q, e) ==
  LET lower == {i \in 1..Len(q) : q[i].priority < e.priority}
      idx == IF lower = {} THEN Len(q) + 1
             ELSE CHOOSE i \in lower : \A j \in lower : i <= j
  IN SubSeq(q, 1, idx - 1) \o <<e>> \o SubSeq(q, idx, Len(q))

Remove(s, x) == SelectSeq(s, LAMBDA y : y # x)

\* clearIdleTimer() (lines 228-233): clearTimeout cancels the timeout held in
\* this.idleTimer if it is still pending; tm is the field, n the number of
\* pending timeouts
ClearedTimers(tm, n) == IF tm = "armed" THEN n - 1 ELSE n

\* no answer has been sent
NoResponse == [status |-> 0, success |-> FALSE, error |-> "none", counted |-> "none"]

\* router.post('/extract'), lines 230-275: the answer to what extractM3u8
\* returned ("stream", "null") or threw (message), with the labels of the
\* single extractionsTotal.inc it performs
RouteResponse(value, message) ==
  IF value = "stream"
  THEN [status |-> 200, success |-> TRUE, error |-> "none", counted |-> "success/none"]
  ELSE IF value = "null"
  THEN [status |-> 200, success |-> FALSE, error |-> "m3u8 extraction failed",
        counted |-> "failure/timeout"]
  ELSE [status |-> 503, success |-> FALSE, error |-> message,
        counted |-> IF message = "Circuit breaker open" THEN "failure/circuit_open"
                    ELSE "failure/browser_error"]

\* browser.isConnected()
IsConnected(h) == hstate[h] \in {"live", "closing"}

\* a handle launched by the pool that is neither closed (or closing) nor disconnected
LiveHandles == {h \in Handles : hstate[h] = "live"}

Referenced(h) == browser = h \/ \E p \in Procs : lres[p] = h \/ got[p] = h
Reusable(h) == hstate[h] \in {"free", "disconnected"} /\ ~Referenced(h)

InFlight == {p \in Procs : lstate[p] = "pending"}

\* ---------------------------------------------------------------- Init
Init ==
  /\ browser = NoHandle
  /\ launching = NoProc
  /\ launchTime = 0
  /\ activeCount = 0
  /\ idleTimer = "null"
  /\ idleDeadline = 0
  /\ consecutiveFailures = 0
  /\ circuitOpenUntil = 0
  /\ queue = <<>>
  /\ pending = 0
  /\ browserLaunchFailures = 0
  /\ circuitBreakerOpen = 0
  /\ now = TickMs
  /\ hstate = [h \in Handles |-> "free"]
  /\ lstate = [p \in Procs |-> "none"]
  /\ lres = [p \in Procs |-> NoHandle]
  /\ pc = [p \in Procs |-> "new"]
  /\ kind = [p \in Procs |-> "task"]
  /\ prio = [p \in Procs |-> 0]
  /\ req = [p \in Procs |-> NoReq]
  /\ waitOn = [p \in Procs |-> 0]
  /\ res = [p \in Procs |-> "none"]
  /\ got = [p \in Procs |-> NoHandle]
  /\ subOrder = <<>>
  /\ admitInfo = [id |-> NoProc, waiting |-> <<>>]
  /\ pendingTimers = 0
  /\ cause = [p \in Procs |-> "none"]
  /\ response = [p \in Procs |-> NoResponse]
  /\ submitted = {}
  /\ closeState = [st |-> "none", h |-> NoHandle]
  /\ xpc = "idle"
  /\ context = "null"
  /\ resolved = FALSE
  /\ timeoutId = "null"
  /\ m3u8Promise = Unresolved
  /\ resolveCalls = 0
  /\ hpc = [r \in Reqs |-> "none"]
  /\ rkind = [r \in Reqs |-> "other"]
  /\ cookieString = [r \in Reqs |-> "undefined"]
  /\ winner = NoRequest
  /\ hlog = <<>>
  /\ contextCloses = 0
  /\ xret = "none"
  /\ teardownErrors = {}
  /\ circuitOpenSince = NoTime
  /\ watchdogTimer = "running"
  /\ lastPoll = 0
  /\ shutdownInProgress = FALSE
  /\ forceDeadline = NoTime
  /\ exitCode = NoExit
  /\ serverCloseCalls = 0
  /\ shutdownRuns = 0
  /\ signals = 0
  /\ closedPollAt = NoTime
  /\ healthResponse = NoHealth
  /\ request = NoneYet
  /\ decision = "none"

\* ------------------------------------------------------------ event loop

\* positions at which a caller's continuation is ready to resume
ReadyPcs == {"gbLaunchReady", "gbJoinReady", "gbDone", "gbAfterRestart", "settled",
             "failing", "respond", "responded"}

\* no continuation is ready: the event loop takes the next event
Quiescent == \A p \in Procs : pc[p] \notin ReadyPcs

\* --------------------------------------------------- browser acquisition

\* variant of LaunchOrJoin: the `if (this.launching)` guard is missing
LaunchOrJoinUnguarded(p, pcB, resB) ==
  /\ launching' = p
  /\ lstate' = [lstate EXCEPT ![p] = "pending"]
  /\ launchTime' = now
  /\ pc' = [pcB EXCEPT ![p] = "gbLauncher"]
  /\ waitOn' = [waitOn EXCEPT ![p] = 0]
  /\ res' = resB
  /\ UNCHANGED got

\* getBrowser, lines 60-71: join the launch in progress, or start one
\* (launchBrowser sets this.launchTime before awaiting chromium.launch);
\* pcB and resB are the callers' positions and results before this call
LaunchOrJoin(p, pcB, resB) ==
  IF launching # NoProc
  THEN /\ IF lstate[launching] = "pending"
          THEN /\ pc' = [pcB EXCEPT ![p] = "gbJoined"]
               /\ waitOn' = [waitOn EXCEPT ![p] = launching]
               /\ res' = resB
               /\ UNCHANGED got
          ELSE /\ pc' = [pcB EXCEPT ![p] = "gbJoinReady"]
               /\ waitOn' = [waitOn EXCEPT ![p] = 0]
               /\ res' = [resB EXCEPT ![p] =
                            IF lstate[launching] = "ok" THEN "browser" ELSE "launch_error"]
               /\ got' = [got EXCEPT ![p] = lres[launching]]
       /\ UNCHANGED <<launching, lstate, launchTime>>
  ELSE /\ launching' = p
       /\ lstate' = [lstate EXCEPT ![p] = "pending"]
       /\ launchTime' = now
       /\ pc' = [pcB EXCEPT ![p] = "gbLauncher"]
       /\ waitOn' = [waitOn EXCEPT ![p] = 0]
       /\ res' = resB
       /\ UNCHANGED got

\* getBrowser, lines 34-65, up to its first suspension point, for a caller
\* that reads this.activeCount as ac and finds the idle timer as (tm, dl),
\* with pt timeouts pending
Acquire(p, pcB, resB, ac, tm, dl, pt) ==
  IF IsCircuitOpen(circuitOpenUntil, now)
  THEN \* throw new Error(`Circuit breaker open, retry in ${waitTime}s`)
       /\ pc' = [pcB EXCEPT ![p] = "gbDone"]
       /\ res' = [resB EXCEPT ![p] = "circuit_open"]
       /\ idleTimer' = tm
       /\ idleDeadline' = dl
       /\ pendingTimers' = pt
       /\ UNCHANGED <<poolVars, hstate, lstate, waitOn, got>>
  ELSE IF browser # NoHandle /\ IsConnected(browser)
  THEN IF MaxAgeExceeded(now - launchTime, ac)
       THEN \* await this.restartBrowser(): clearIdleTimer, null the
            \* reference, then oldBrowser.close()
            /\ idleTimer' = "null"
            /\ idleDeadline' = 0
            /\ pendingTimers' = ClearedTimers(tm, pt)
            /\ browser' = ReferenceAfterRestart(browser)
            /\ hstate' = [hstate EXCEPT ![browser] = "closing"]
            /\ pc' = [pcB EXCEPT ![p] = "gbAwaitClose"]
            /\ waitOn' = [waitOn EXCEPT ![p] = browser]
            /\ res' = resB
            /\ UNCHANGED <<launching, launchTime, lstate, got>>
       ELSE \* return this.browser
            /\ pc' = [pcB EXCEPT ![p] = "gbDone"]
            /\ res' = [resB EXCEPT ![p] = "browser"]
            /\ got' = [got EXCEPT ![p] = browser]
            /\ idleTimer' = tm
            /\ idleDeadline' = dl
            /\ pendingTimers' = pt
            /\ UNCHANGED <<poolVars, hstate, lstate, waitOn>>
  ELSE \* no handle, or a disconnected one whose reference is cleared
       /\ browser' = NoHandle
       /\ LaunchOrJoin(p, pcB, resB)
       /\ idleTimer' = tm
       /\ idleDeadline' = dl
       /\ pendingTimers' = pt
       /\ UNCHANGED hstate

\* browserPool.getBrowser() / createContext() called outside withLimit
CallGetBrowser(p) ==
  /\ Quiescent
  /\ pc[p] = "new"
  /\ kind' = [kind EXCEPT ![p] = "direct"]
  /\ Acquire(p, pc, res, activeCount, idleTimer, idleDeadline, pendingTimers)
  /\ UNCHANGED <<pipeVars, procVars, edgeVars, activeCount, circuitVars, queueVars, routeVars, submitted, closeState, now, lres, prio, req>>

\* getBrowser resumes after `await this.restartBrowser()`
GbAfterRestart(p) ==
  /\ pc[p] = "gbAfterRestart"
  /\ LaunchOrJoin(p, pc, res)
  /\ UNCHANGED <<pipeVars, procVars, edgeVars, browser, activeCount, timerVars, circuitVars, queueVars, routeVars, submitted, closeState, now,
                 hstate, lres, kind, prio, req>>

\* chromium.launch() settles inside launchBrowserWithCircuitBreaker
\* (lines 78-99); the launch promise settles for the launcher and for every
\* caller that returned this.launching
LaunchSettle(l, ok) ==
  /\ Quiescent
  /\ lstate[l] = "pending"
  /\ IF ok
     THEN /\ \E h \in Handles :
               /\ Reusable(h)
               /\ \A g \in Handles : Reusable(g) => h <= g
               /\ hstate' = [hstate EXCEPT ![h] = "live"]
               /\ lres' = [lres EXCEPT ![l] = h]
               /\ got' = [q \in Procs |->
                            IF pc[q] = "gbJoined" /\ waitOn[q] = l THEN h ELSE got[q]]
          /\ lstate' = [lstate EXCEPT ![l] = "ok"]
          /\ consecutiveFailures' = FailuresAfterSuccess(consecutiveFailures)
          /\ circuitOpenUntil' = 0
          /\ circuitBreakerOpen' = 0
          /\ UNCHANGED browserLaunchFailures
     ELSE /\ browserLaunchFailures < MaxLaunchFailures
          /\ lstate' = [lstate EXCEPT ![l] = "fail"]
          /\ consecutiveFailures' = FailuresAfterFailure(consecutiveFailures)
          /\ browserLaunchFailures' = browserLaunchFailures + 1
          /\ IF TripsCircuit(consecutiveFailures')
             THEN /\ circuitOpenUntil' = now + CIRCUIT_BREAKER_RESET_MS
                  /\ circuitBreakerOpen' = 1
             ELSE UNCHANGED <<circuitOpenUntil, circuitBreakerOpen>>
          /\ lres' = [lres EXCEPT ![l] = LaunchError(browserLaunchFailures')]
          /\ got' = [q \in Procs |->
                       IF pc[q] = "gbJoined" /\ waitOn[q] = l
                       THEN LaunchError(browserLaunchFailures') ELSE got[q]]
          /\ UNCHANGED hstate
  /\ pc' = [q \in Procs |->
              IF q = l /\ pc[q] = "gbLauncher" THEN "gbLaunchReady"
              ELSE IF pc[q] = "gbJoined" /\ waitOn[q] = l THEN "gbJoinReady"
              ELSE pc[q]]
  /\ res' = [q \in Procs |->
               IF pc[q] = "gbJoined" /\ waitOn[q] = l
               THEN (IF ok THEN "browser" ELSE "launch_error")
               ELSE res[q]]
  /\ waitOn' = [q \in Procs |->
                  IF pc[q] = "gbJoined" /\ waitOn[q] = l THEN 0 ELSE waitOn[q]]
  /\ UNCHANGED <<pipeVars, procVars, edgeVars, poolVars, activeCount, timerVars, queueVars, routeVars, submitted, closeState, now, kind, prio, req>>

\* getBrowser, lines 66-71: this.browser = await this.launching; finally
\* this.launching = null
GbLauncherResume(p) ==
  /\ pc[p] = "gbLaunchReady"
  /\ IF lstate[p] = "ok"
     THEN /\ browser' = lres[p]
          /\ res' = [res EXCEPT ![p] = "browser"]
          /\ got' = [got EXCEPT ![p] = lres[p]]
     ELSE /\ res' = [res EXCEPT ![p] = "launch_error"]
          /\ got' = [got EXCEPT ![p] = lres[p]]
          /\ UNCHANGED browser
  /\ launching' = NoProc
  /\ lstate' = [lstate EXCEPT ![p] = "none"]
  /\ lres' = [lres EXCEPT ![p] = NoHandle]
  /\ pc' = [pc EXCEPT ![p] = "gbDone"]
  /\ UNCHANGED <<pipeVars, procVars, edgeVars, launchTime, activeCount, timerVars, circuitVars, queueVars, routeVars, submitted, closeState, now,
                 hstate, kind, prio, req, waitOn>>

\* variant of GbJoinerResume: a waiting caller that sees the launch fail
\* counts the failure again
GbJoinerResumeCounting(p) ==
  /\ pc[p] = "gbJoinReady"
  /\ pc' = [pc EXCEPT ![p] = "gbDone"]
  /\ consecutiveFailures' = IF res[p] = "launch_error"
                            THEN consecutiveFailures + 1 ELSE consecutiveFailures
  /\ UNCHANGED <<pipeVars, procVars, edgeVars, poolVars, activeCount, timerVars, circuitOpenUntil,
                 browserLaunchFailures, circuitBreakerOpen, queueVars, routeVars,
                 submitted, closeState, now, hstate, lstate, lres, kind, prio, req,
                 callVars>>

\* a caller that returned this.launching resumes with the launch's result
GbJoinerResume(p) ==
  /\ pc[p] = "gbJoinReady"
  /\ pc' = [pc EXCEPT ![p] = "gbDone"]
  /\ UNCHANGED <<pipeVars, procVars, edgeVars, poolVars, activeCount, timerVars, circuitVars, queueVars, routeVars, submitted, closeState, now,
                 hstate, lstate, lres, kind, prio, req, callVars>>

\* getBrowser's result reaches its caller: a direct caller is finished; in
\* doExtraction a handle is used for the rest of the extraction ("running")
\* and a thrown acquisition goes to the catch block at once ("failing"),
\* both inside the wrapper's fn
GbReturn(p) ==
  /\ pc[p] = "gbDone"
  /\ IF kind[p] = "direct"
     THEN /\ pc' = [pc EXCEPT ![p] = "new"]
          /\ kind' = [kind EXCEPT ![p] = "task"]
          /\ res' = [res EXCEPT ![p] = "none"]
          /\ got' = [got EXCEPT ![p] = NoHandle]
     ELSE /\ pc' = [pc EXCEPT ![p] = IF res[p] = "browser" THEN "running" ELSE "failing"]
          /\ UNCHANGED <<kind, res, got>>
  /\ UNCHANGED <<pipeVars, procVars, edgeVars, poolVars, activeCount, timerVars, circuitVars, queueVars, routeVars, submitted, closeState, now,
                 hstate, lstate, lres, prio, req, waitOn>>

\* ----------------------------------------------------- queue operations

\* the waiting callers s with the priorities they were submitted with
Snapshot(s, pr, rq) ==
  [i \in 1..Len(s) |-> [id |-> s[i], priority |-> pr[s[i]], req |-> rq[s[i]]]]

\* history of the last admission: the admitted caller and everybody who was
\* waiting at that moment (nothing is recorded when nobody else was waiting)
Admission(job, w) ==
  IF Len(w) > 1 THEN [id |-> job, waiting |-> w] ELSE [id |-> NoProc, waiting |-> <<>>]

\* variant of StartFn: the wrapper does not call clearIdleTimer()
StartFnKeepsTimer(job, pcB, resB, ac) ==
  IF kind'[job] = "extract"
  THEN Acquire(job, pcB, resB, ac, idleTimer, idleDeadline, pendingTimers)
  ELSE /\ pc' = [pcB EXCEPT ![job] = "running"]
       /\ res' = resB
       /\ UNCHANGED <<timerVars, poolVars, hstate, lstate, waitOn, got>>

\* a started wrapper (withLimit, lines 188-198) runs clearIdleTimer();
\* this.activeCount++ and calls fn, which runs up to its first suspension
\* point: doExtraction calls createContext -> getBrowser; an opaque fn waits
StartFn(job, pcB, resB, ac) ==
  IF kind'[job] = "extract"
  THEN Acquire(job, pcB, resB, ac, "null", 0, ClearedTimers(idleTimer, pendingTimers))
  ELSE /\ pc' = [pcB EXCEPT ![job] = "running"]
       /\ res' = resB
       /\ idleTimer' = "null"
       /\ idleDeadline' = 0
       /\ pendingTimers' = ClearedTimers(idleTimer, pendingTimers)
       /\ UNCHANGED <<poolVars, hstate, lstate, waitOn, got>>

\* variant of Submit: a submission that finds no free slot displaces a
\* running task of lower priority
SubmitPreempting(p, k, pr, rq) ==
  /\ Quiescent
  /\ pc[p] = "new"
  /\ kind' = [kind EXCEPT ![p] = k]
  /\ prio' = [prio EXCEPT ![p] = pr]
  /\ req' = [req EXCEPT ![p] = rq]
  /\ LET q1 == Enqueue(queue, [id |-> p, priority |-> pr])
         job == Head(q1).id
         s1 == Append(subOrder, p)
         victims == {v \in Procs : pc[v] = "running" /\ prio[v] < pr}
     IN IF ConcurrencyAllowsAnother(pending)
        THEN /\ queue' = Tail(q1)
             /\ pending' = pending + 1
             /\ activeCount' = activeCount + 1
             /\ subOrder' = Remove(s1, job)
             /\ admitInfo' = Admission(job, Snapshot(s1, prio', req'))
             /\ StartFn(job, [pc EXCEPT ![p] = "queued"], res, activeCount + 1)
        ELSE IF victims # {} /\ k = "task"
        THEN LET v == CHOOSE x \in victims : TRUE
             IN /\ queue' = Enqueue(queue, [id |-> v, priority |-> prio[v]])
                /\ pc' = [pc EXCEPT ![p] = "running", ![v] = "queued"]
                /\ subOrder' = Append(subOrder, v)
                /\ UNCHANGED <<pending, activeCount, timerVars, admitInfo, poolVars,
                               hstate, lstate, callVars>>
        ELSE /\ queue' = q1
             /\ pc' = [pc EXCEPT ![p] = "queued"]
             /\ subOrder' = s1
             /\ UNCHANGED <<pending, activeCount, timerVars, admitInfo, poolVars,
                            hstate, lstate, callVars>>
  /\ UNCHANGED <<pipeVars, procVars, edgeVars, circuitVars, routeVars, closeState, now, lres>>

\* withLimit: this.queue.add(wrapper, { priority }).  PQueue enqueues the job
\* and tries to start another one in the same synchronous run
Submit(p, k, pr, rq) ==
  /\ Quiescent
  /\ pc[p] = "new"
  /\ kind' = [kind EXCEPT ![p] = k]
  /\ prio' = [prio EXCEPT ![p] = pr]
  /\ req' = [req EXCEPT ![p] = rq]
  /\ LET q1 == Enqueue(queue, [id |-> p, priority |-> pr])
         job == Head(q1).id
         s1 == Append(subOrder, p)
     IN IF ConcurrencyAllowsAnother(pending)
        THEN /\ queue' = Tail(q1)
             /\ pending' = pending + 1
             /\ activeCount' = activeCount + 1
             /\ subOrder' = Remove(s1, job)
             /\ admitInfo' = Admission(job, Snapshot(s1, prio', req'))
             /\ StartFn(job, [pc EXCEPT ![p] = "queued"], res, activeCount + 1)
        ELSE /\ queue' = q1
             /\ pc' = [pc EXCEPT ![p] = "queued"]
             /\ subOrder' = s1
             /\ UNCHANGED <<pending, activeCount, timerVars, admitInfo, poolVars,
                            hstate, lstate, callVars>>
  /\ UNCHANGED <<pipeVars, procVars, edgeVars, circuitVars, routeVars, closeState, now, lres>>

\* browserPool.withLimit(fn, priority) called directly with an opaque fn
WithLimit(p, pr) == Submit(p, "task", pr, NoReq) /\ UNCHANGED submitted

\* one task of a batch in which every caller submits at most once
WithLimitOnce(p, pr) ==
  /\ p \notin submitted
  /\ Submit(p, "task", pr, NoReq)
  /\ submitted' = submitted \cup {p}

\* router.post('/extract'): the adapter chooses the priority and calls
\* extractM3u8(embedUrl, timeout, priority, queueEnqueueTime)
PostExtract(p, param) ==
  /\ Submit(p, "extract", ExtractM3u8Priority(PriorityLevel(param)), PriorityLevel(param))
  /\ UNCHANGED submitted

\* how doExtraction's try block can end for caller p: with the error thrown
\* by the acquisition, with a stream, with the extraction timeout, or, when
\* its browser is no longer live, with a driver call that throws
ExtractionEnds(p) ==
  IF res[p] = "circuit_open" THEN {"circuit_open"}
  ELSE IF res[p] = "launch_error" THEN {"launch_error"}
  ELSE IF hstate[got[p]] = "live" THEN {"stream", "timeout"}
  ELSE {"stream", "timeout", "driver_error"}

\* what doExtraction returns: the m3u8 promise's value, or null from the
\* catch block (extractor.ts, lines 237-239) for every error
ExtractionValue(c) == IF c = "stream" THEN "stream" ELSE "null"

\* the message of the error an extraction ended with
ErrorMessage(c) ==
  IF c = "circuit_open" THEN "Circuit breaker open"
  ELSE IF c = "launch_error" THEN "launch failed"
  ELSE "driver call failed"

\* the wrapper's fn settles: an opaque fn resolves or throws, doExtraction
\* resolves after ending as `outcome`; finally: this.activeCount--, and
\* scheduleIdleRestart() when the count reaches zero.  A fn that waits
\* settles on an event; a doExtraction whose acquisition threw settles in
\* the same run of the event loop
FnSettle(p, outcome) ==
  /\ \/ Quiescent /\ pc[p] = "running"
     \/ pc[p] = "failing"
  /\ outcome \in (IF kind[p] = "extract" THEN ExtractionEnds(p) ELSE {"resolved", "threw"})
  /\ activeCount' = activeCount - 1
  /\ IF SchedulesIdleRestart(activeCount')
     THEN /\ idleTimer' = "armed"
          /\ idleDeadline' = now + IDLE_TIMEOUT_MS
          /\ pendingTimers' = ClearedTimers(idleTimer, pendingTimers) + 1
     ELSE UNCHANGED timerVars
  /\ pc' = [pc EXCEPT ![p] = "settled"]
  /\ IF kind[p] = "extract"
     THEN /\ cause' = [cause EXCEPT ![p] = outcome]
          /\ res' = [res EXCEPT ![p] = ExtractionValue(outcome)]
     ELSE /\ res' = [res EXCEPT ![p] = outcome]
          /\ UNCHANGED cause
  /\ got' = [got EXCEPT ![p] = NoHandle]
  /\ UNCHANGED <<pipeVars, procVars, edgeVars, poolVars, circuitVars, queueVars, response, submitted, closeState,
                 now, hstate, lstate, lres, kind, prio, req, waitOn>>

\* variant of QueueNext: the slot is released and the head of the queue is
\* not started
QueueNextNoStart(p) ==
  /\ pc[p] = "settled"
  /\ pending' = pending - 1
  /\ pc' = [pc EXCEPT ![p] = IF kind[p] # "extract" THEN "new" ELSE "respond"]
  /\ res' = IF kind[p] # "extract" THEN [res EXCEPT ![p] = "none"] ELSE res
  /\ prio' = IF kind[p] # "extract" THEN [prio EXCEPT ![p] = 0] ELSE prio
  /\ UNCHANGED <<pipeVars, procVars, edgeVars, queue, subOrder, admitInfo, activeCount, timerVars, poolVars,
                 hstate, lstate, waitOn, got, kind, req, circuitVars, routeVars,
                 submitted, closeState, now, lres>>

\* PQueue after the job's promise settled: one slot is released and the head
\* of the queue, if any, is started.  A withLimit caller is finished; a
\* request goes on in the route handler with the value extractM3u8 returned
QueueNext(p) ==
  /\ pc[p] = "settled"
  /\ LET fin == kind[p] # "extract"
         pcA == [pc EXCEPT ![p] = IF fin THEN "new" ELSE "respond"]
         resA == IF fin THEN [res EXCEPT ![p] = "none"] ELSE res
     IN /\ kind' = kind
        /\ prio' = IF fin THEN [prio EXCEPT ![p] = 0] ELSE prio
        /\ req' = req
        /\ IF queue # <<>> /\ ConcurrencyAllowsAnother(pending - 1)
           THEN LET job == Head(queue).id
                IN /\ queue' = Tail(queue)
                   /\ pending' = pending
                   /\ activeCount' = activeCount + 1
                   /\ subOrder' = Remove(subOrder, job)
                   /\ admitInfo' = Admission(job, Snapshot(subOrder, prio, req))
                   /\ StartFn(job, pcA, resA, activeCount + 1)
           ELSE /\ pending' = pending - 1
                /\ pc' = pcA
                /\ res' = resA
                /\ UNCHANGED <<queue, subOrder, admitInfo, activeCount, timerVars,
                               poolVars, hstate, lstate, waitOn, got>>
  /\ UNCHANGED <<pipeVars, procVars, edgeVars, circuitVars, routeVars, submitted, closeState, now, lres>>

\* router.post('/extract') resumes after `await extractM3u8(...)`, counts
\* the request once and sends the answer
Respond(p) ==
  /\ pc[p] = "respond"
  /\ response' = [response EXCEPT ![p] = RouteResponse(res[p], ErrorMessage(cause[p]))]
  /\ pc' = [pc EXCEPT ![p] = "responded"]
  /\ UNCHANGED <<pipeVars, procVars, edgeVars, poolVars, activeCount, timerVars, circuitVars, queueVars, cause,
                 submitted, closeState, now, hstate, lstate, lres, kind, prio, req,
                 callVars>>

\* the request is over: its caller is idle again
RequestDone(p) ==
  /\ pc[p] = "responded"
  /\ pc' = [pc EXCEPT ![p] = "new"]
  /\ kind' = [kind EXCEPT ![p] = "task"]
  /\ prio' = [prio EXCEPT ![p] = 0]
  /\ req' = [req EXCEPT ![p] = NoReq]
  /\ res' = [res EXCEPT ![p] = "none"]
  /\ cause' = [cause EXCEPT ![p] = "none"]
  /\ response' = [response EXCEPT ![p] = NoResponse]
  /\ UNCHANGED <<pipeVars, procVars, edgeVars, poolVars, activeCount, timerVars, circuitVars, queueVars,
                 submitted, closeState, now, hstate, lstate, lres, waitOn, got>>

\* ------------------------------------------------ restarts, driver, clock

\* variant of IdleFire: the restart relaunches eagerly, on behalf of no caller
IdleFireEager ==
  /\ Quiescent
  /\ idleTimer = "armed"
  /\ now >= idleDeadline
  /\ idleDeadline' = 0
  /\ pendingTimers' = pendingTimers - 1
  /\ IF activeCount = 0 /\ browser # NoHandle
     THEN /\ idleTimer' = "null"
          /\ browser' = NoHandle
          /\ hstate' = [hstate EXCEPT ![browser] = "closing"]
          /\ IF launching = NoProc /\ \E w \in Procs : pc[w] = "new"
             THEN LET w == CHOOSE x \in Procs : pc[x] = "new"
                  IN /\ launching' = w
                     /\ lstate' = [lstate EXCEPT ![w] = "pending"]
                     /\ launchTime' = now
             ELSE UNCHANGED <<launching, lstate, launchTime>>
     ELSE /\ idleTimer' = "stale"
          /\ UNCHANGED <<browser, hstate, launching, lstate, launchTime>>
  /\ UNCHANGED <<pipeVars, procVars, edgeVars, activeCount, circuitVars, queueVars, routeVars, submitted, closeState, now,
                 lres, pc, kind, prio, req, callVars>>

\* variant of IdleFire: the restart closes the browser and keeps the reference
IdleFireKeepsReference ==
  /\ Quiescent
  /\ idleTimer = "armed"
  /\ now >= idleDeadline
  /\ idleDeadline' = 0
  /\ pendingTimers' = pendingTimers - 1
  /\ IF activeCount = 0 /\ browser # NoHandle
     THEN /\ idleTimer' = "null"
          /\ hstate' = [hstate EXCEPT ![browser] = "closing"]
     ELSE /\ idleTimer' = "stale"
          /\ UNCHANGED hstate
  /\ UNCHANGED <<pipeVars, procVars, edgeVars, poolVars, activeCount, circuitVars, queueVars, routeVars, submitted,
                 closeState, now, lstate, lres, pc, kind, prio, req, callVars>>

\* the idle timer's callback (scheduleIdleRestart, lines 237-244); the fired
\* timer stays in this.idleTimer unless restartBrowser clears it
IdleFire ==
  /\ Quiescent
  /\ idleTimer = "armed"
  /\ now >= idleDeadline
  /\ idleDeadline' = 0
  /\ pendingTimers' = pendingTimers - 1
  /\ IF activeCount = 0 /\ browser # NoHandle
     THEN \* restartBrowser(): clearIdleTimer, null the reference, close
          /\ idleTimer' = "null"
          /\ browser' = ReferenceAfterRestart(browser)
          /\ hstate' = [hstate EXCEPT ![browser] = "closing"]
     ELSE /\ idleTimer' = "stale"
          /\ UNCHANGED <<browser, hstate>>
  /\ UNCHANGED <<pipeVars, procVars, edgeVars, launching, launchTime, activeCount, circuitVars, queueVars, routeVars, submitted, closeState, now,
                 lstate, lres, pc, kind, prio, req, callVars>>

\* browserPool.close(), lines 256-265, up to `await oldBrowser.close()`
ClosePool ==
  /\ Quiescent
  /\ idleTimer' = "null"
  /\ idleDeadline' = 0
  /\ pendingTimers' = ClearedTimers(idleTimer, pendingTimers)
  /\ IF browser # NoHandle
     THEN /\ browser' = ReferenceAfterRestart(browser)
          /\ hstate' = [hstate EXCEPT ![browser] = "closing"]
     ELSE UNCHANGED <<browser, hstate>>
  /\ UNCHANGED <<pipeVars, procVars, edgeVars, launching, launchTime, activeCount, circuitVars, queueVars, routeVars, submitted, now,
                 lstate, lres, pc, kind, prio, req, callVars>>

\* browserPool.close() called by a caller that does not wait for it
Close == ClosePool /\ UNCHANGED closeState

\* shutdown(), step 4: `await browserPool.close()`; shutdownInProgress lets
\* it run once, and closeState is the position of this call
Shutdown ==
  /\ closeState.st = "none"
  /\ ClosePool
  /\ closeState' = IF browser # NoHandle
                   THEN [st |-> "awaiting", h |-> browser]
                   ELSE [st |-> "done", h |-> NoHandle]

\* variant of Disconnect: the handler leaves the reference in place
DisconnectIgnored(h) ==
  /\ Quiescent
  /\ hstate[h] = "live"
  /\ hstate' = [hstate EXCEPT ![h] = "disconnected"]
  /\ UNCHANGED <<pipeVars, procVars, edgeVars, poolVars, activeCount, timerVars, circuitVars,
                 queueVars, routeVars, submitted, closeState, now, lstate, lres, pc,
                 kind, prio, req, callVars>>

\* the driver's 'disconnected' event of a launched browser (lines 153-158)
Disconnect(h) ==
  /\ Quiescent
  /\ hstate[h] = "live"
  /\ hstate' = [hstate EXCEPT ![h] = "disconnected"]
  /\ browser' = IF ClearsReference(browser, h) THEN NoHandle ELSE browser
  /\ UNCHANGED <<pipeVars, procVars, edgeVars, launching, launchTime, activeCount, timerVars, circuitVars,
                 queueVars, routeVars, submitted, closeState, now, lstate, lres, pc, kind, prio, req, callVars>>

\* the connection to a launched browser is lost: isConnected() is false from
\* now on, the 'disconnected' event has not been delivered yet
ConnectionLost(h) ==
  /\ Quiescent
  /\ hstate[h] = "live"
  /\ hstate' = [hstate EXCEPT ![h] = "lost"]
  /\ UNCHANGED <<pipeVars, procVars, edgeVars, poolVars, activeCount, timerVars, circuitVars, queueVars, routeVars,
                 submitted, closeState, now, lstate, lres, pc, kind, prio, req, callVars>>

\* the 'disconnected' event of a lost connection is delivered (lines 153-158)
DisconnectedEvent(h) ==
  /\ Quiescent
  /\ hstate[h] = "lost"
  /\ hstate' = [hstate EXCEPT ![h] = "disconnected"]
  /\ browser' = IF ClearsReference(browser, h) THEN NoHandle ELSE browser
  /\ UNCHANGED <<pipeVars, procVars, edgeVars, launching, launchTime, activeCount, timerVars, circuitVars,
                 queueVars, routeVars, submitted, closeState, now, lstate, lres, pc,
                 kind, prio, req, callVars>>

\* oldBrowser.close() settles (resolved or rejected: the rejection is
\* caught); the closed browser emits 'disconnected' and its handler runs
\* (lines 153-158)
HandleCloseSettle(h) ==
  /\ Quiescent
  /\ hstate[h] = "closing"
  /\ hstate' = [hstate EXCEPT ![h] = "free"]
  /\ browser' = IF ClearsReference(browser, h) THEN NoHandle ELSE browser
  /\ pc' = [q \in Procs |->
              IF pc[q] = "gbAwaitClose" /\ waitOn[q] = h THEN "gbAfterRestart" ELSE pc[q]]
  /\ waitOn' = [q \in Procs |->
                  IF pc[q] = "gbAwaitClose" /\ waitOn[q] = h THEN 0 ELSE waitOn[q]]
  /\ closeState' = IF closeState.st = "awaiting" /\ closeState.h = h
                   THEN [st |-> "done", h |-> NoHandle]
                   ELSE closeState
  /\ UNCHANGED <<pipeVars, procVars, edgeVars, launching, launchTime, activeCount, timerVars, circuitVars, queueVars, routeVars, submitted, now,
                 lstate, lres, kind, prio, req, res, got>>

\* time passes; a due timer fires before more time passes
Tick ==
  /\ Quiescent
  /\ now < MaxTime
  /\ ~(idleTimer = "armed" /\ now >= idleDeadline)
  /\ now' = now + TickMs
  /\ UNCHANGED <<pipeVars, procVars, edgeVars, poolVars, activeCount, timerVars, circuitVars, queueVars,
                 routeVars, submitted, closeState,
                 hstate, lstate, lres, pc, kind, prio, req, callVars>>

\* ------------------------------------ one extraction (extractor.ts 75-255)

\* url.includes('.m3u8') and url.includes('.ts.m3u8'), by the kind of the
\* URL; a URL that includes '.ts.m3u8' includes '.m3u8' too
IncludesM3u8(k) == k \in {"m3u8", "ts.m3u8"}
IncludesTsM3u8(k) == k = "ts.m3u8"

\* variant of IsTarget: every URL that includes '.m3u8' is taken
IsTargetAnyM3u8(k) == IncludesM3u8(k)

\* the condition of line 107
IsTarget(k) == IncludesM3u8(k) /\ ~IncludesTsM3u8(k)

\* variant of AlreadyResolved: the handler does not look at the flag
AlreadyResolvedNever(flag) == FALSE

\* the check of line 109
AlreadyResolved(flag) == flag

\* variant of MarkResolved: the handler leaves the flag as it is
MarkResolvedLater(flag) == flag

\* the assignment of line 113
MarkResolved(flag) == TRUE

\* clearTimeout in the finally block (242-244): the id is kept
Finally(tid) == IF tid = "armed" THEN "cleared" ELSE tid

\* variant of AfterCatch: the catch block returns at once
AfterCatchNoFinally(ctx) == "returned"

\* where the main flow is after the finally block's synchronous part: the
\* clean-up runs if a context was obtained (245)
AfterCatch(ctx) == IF ctx = "null" THEN "returned" ELSE "unroute"

\* variant of AfterTeardownStep: a teardown call that rejects ends the
\* teardown
AfterTeardownStepStops(step, ok) ==
  IF ~ok THEN "returned"
  ELSE CASE step = "unroute" -> "closePages"
         [] step = "closePages" -> "closeContext"
         [] step = "closeContext" -> "returned"

\* the finally block's awaits in their order (247-252); each rejection is
\* swallowed by .catch(() => {})
AfterTeardownStep(step, ok) ==
  CASE step = "unroute" -> "closePages"
    [] step = "closePages" -> "closeContext"
    [] step = "closeContext" -> "returned"

\* resolvePromise(v): a promise keeps its first resolution
ResolvePromise(v) ==
  /\ resolveCalls' = resolveCalls + 1
  /\ m3u8Promise' = IF m3u8Promise.st = "pending" THEN v ELSE m3u8Promise

\* the driver calls that the main flow awaits between setting the timer and
\* awaiting m3u8Promise (212-232)
DriverWaits == {"newPage", "goto", "wait1", "click1", "wait2", "frames"}

\* positions at which the route handler is registered and requests may come
Routed == {"goto", "wait1", "click1", "wait2", "frames", "awaitM3u8", "unroute"}

\* withLimit runs doExtraction, which awaits browserPool.createContext() (85)
DoExtraction ==
  /\ xpc = "idle"
  /\ xpc' = "createContext"
  /\ UNCHANGED <<context, resolved, timeoutId, m3u8Promise, resolveCalls, hpc,
                 rkind, cookieString, winner, hlog, contextCloses, xret,
                 teardownErrors,
                 serviceVars, procVars, edgeVars>>

\* createContext settles (85); on a rejection the catch block returns null
\* and the finally block finds no context
CreateContextSettle(ok) ==
  /\ xpc = "createContext"
  /\ IF ok
     THEN /\ context' = "open"
          /\ xpc' = "route"
          /\ UNCHANGED xret
     ELSE /\ xret' = "null"
          /\ xpc' = AfterCatch(context)
          /\ UNCHANGED context
  /\ UNCHANGED <<resolved, timeoutId, m3u8Promise, resolveCalls, hpc, rkind,
                 cookieString, winner, hlog, contextCloses,
                 teardownErrors,
                 serviceVars, procVars, edgeVars>>

\* context.route settles (102-201); then the timer is set (204-210) and
\* context.newPage() is awaited (212)
RouteSettle(ok) ==
  /\ xpc = "route"
  /\ IF ok
     THEN /\ timeoutId' = "armed"
          /\ xpc' = "newPage"
          /\ UNCHANGED xret
     ELSE /\ xret' = "null"
          /\ timeoutId' = Finally(timeoutId)
          /\ xpc' = AfterCatch(context)
  /\ UNCHANGED <<context, resolved, m3u8Promise, resolveCalls, hpc, rkind,
                 cookieString, winner, hlog, contextCloses,
                 teardownErrors,
                 serviceVars, procVars, edgeVars>>

\* context.newPage() settles (212); then page.goto is awaited (215)
NewPageSettle(ok) ==
  /\ xpc = "newPage"
  /\ IF ok
     THEN /\ xpc' = "goto"
          /\ UNCHANGED <<xret, timeoutId>>
     ELSE /\ xret' = "null"
          /\ timeoutId' = Finally(timeoutId)
          /\ xpc' = AfterCatch(context)
  /\ UNCHANGED <<context, resolved, m3u8Promise, resolveCalls, hpc, rkind,
                 cookieString, winner, hlog, contextCloses,
                 teardownErrors,
                 serviceVars, procVars, edgeVars>>

\* page.goto settles, its rejection swallowed (215); then the first settle
\* wait is awaited (218)
GotoSettle ==
  /\ xpc = "goto"
  /\ xpc' = "wait1"
  /\ UNCHANGED <<context, resolved, timeoutId, m3u8Promise, resolveCalls, hpc,
                 rkind, cookieString, winner, hlog, contextCloses, xret,
                 teardownErrors,
                 serviceVars, procVars, edgeVars>>

\* the first settle wait ends (218); both `if (!resolved)` are passed over
\* if the flag is set (221, 227)
Wait1Settle ==
  /\ xpc = "wait1"
  /\ xpc' = IF resolved THEN "awaitM3u8" ELSE "click1"
  /\ UNCHANGED <<context, resolved, timeoutId, m3u8Promise, resolveCalls, hpc,
                 rkind, cookieString, winner, hlog, contextCloses, xret,
                 teardownErrors,
                 serviceVars, procVars, edgeVars>>

\* tryClickInFrame on the main frame settles (222); it throws nothing
Click1Settle ==
  /\ xpc = "click1"
  /\ xpc' = "wait2"
  /\ UNCHANGED <<context, resolved, timeoutId, m3u8Promise, resolveCalls, hpc,
                 rkind, cookieString, winner, hlog, contextCloses, xret,
                 teardownErrors,
                 serviceVars, procVars, edgeVars>>

\* the second settle wait ends (223); the clicks in the frames are awaited
\* if the flag is not set and the page has frames (227-231)
Wait2Settle(frames) ==
  /\ xpc = "wait2"
  /\ xpc' = IF ~resolved /\ frames THEN "frames" ELSE "awaitM3u8"
  /\ UNCHANGED <<context, resolved, timeoutId, m3u8Promise, resolveCalls, hpc,
                 rkind, cookieString, winner, hlog, contextCloses, xret,
                 teardownErrors,
                 serviceVars, procVars, edgeVars>>

\* the clicks in the frames settle (230)
FramesSettle ==
  /\ xpc = "frames"
  /\ xpc' = "awaitM3u8"
  /\ UNCHANGED <<context, resolved, timeoutId, m3u8Promise, resolveCalls, hpc,
                 rkind, cookieString, winner, hlog, contextCloses, xret,
                 teardownErrors,
                 serviceVars, procVars, edgeVars>>

\* `await m3u8Promise` resumes (235-236); the finally block clears the timer
\* and awaits context.unroute (242-247)
AwaitM3u8 ==
  /\ xpc = "awaitM3u8"
  /\ m3u8Promise.st # "pending"
  /\ xret' = m3u8Promise.st
  /\ timeoutId' = Finally(timeoutId)
  /\ xpc' = "unroute"
  /\ UNCHANGED <<context, resolved, m3u8Promise, resolveCalls, hpc, rkind,
                 cookieString, winner, hlog, contextCloses,
                 teardownErrors,
                 serviceVars, procVars, edgeVars>>

\* context.unroute settles, its rejection swallowed (247); the pages' close
\* is awaited (249-250)
UnrouteSettle(ok) ==
  /\ xpc = "unroute"
  /\ xpc' = AfterTeardownStep("unroute", ok)
  /\ teardownErrors' = IF ok THEN teardownErrors ELSE teardownErrors \cup {"unroute"}
  /\ UNCHANGED <<context, resolved, timeoutId, m3u8Promise, resolveCalls, hpc,
                 rkind, cookieString, winner, hlog, contextCloses, xret,
                 serviceVars, procVars, edgeVars>>

\* the pages are closed (250); context.close() is called and awaited (252)
ClosePagesSettle(ok) ==
  /\ xpc = "closePages"
  /\ xpc' = AfterTeardownStep("closePages", ok)
  /\ IF xpc' = "closeContext"
     THEN context' = "closed" /\ contextCloses' = contextCloses + 1
     ELSE UNCHANGED <<context, contextCloses>>
  /\ teardownErrors' = IF ok THEN teardownErrors ELSE teardownErrors \cup {"closePages"}
  /\ UNCHANGED <<resolved, timeoutId, m3u8Promise, resolveCalls, hpc, rkind,
                 cookieString, winner, hlog, xret,
                 serviceVars, procVars, edgeVars>>

\* context.close() settles, its rejection swallowed (252); doExtraction
\* returns
CloseContextSettle(ok) ==
  /\ xpc = "closeContext"
  /\ xpc' = AfterTeardownStep("closeContext", ok)
  /\ teardownErrors' = IF ok THEN teardownErrors ELSE teardownErrors \cup {"closeContext"}
  /\ UNCHANGED <<context, resolved, timeoutId, m3u8Promise, resolveCalls, hpc,
                 rkind, cookieString, winner, hlog, contextCloses, xret,
                 serviceVars, procVars, edgeVars>>

\* the timer's callback (204-210)
TimeoutFire ==
  /\ timeoutId = "armed"
  /\ timeoutId' = "fired"
  /\ IF ~resolved
     THEN /\ resolved' = TRUE
          /\ ResolvePromise([Unresolved EXCEPT !.st = "null"])
     ELSE UNCHANGED <<resolved, m3u8Promise, resolveCalls>>
  /\ UNCHANGED <<xpc, context, hpc, rkind, cookieString, winner, hlog,
                 contextCloses, xret, teardownErrors,
                 serviceVars, procVars, edgeVars>>

\* the route handler starts for request r, whose URL is of kind k, and runs
\* to its first await (102-200): route.abort() of a late manifest (110),
\* context.cookies() of the manifest taken (131), or the abort or continue
\* of any other request (168-200)
RouteHandler(r, k) ==
  /\ xpc \in Routed
  /\ hpc[r] = "none"
  /\ \A q \in Reqs : q < r => hpc[q] # "none"
  /\ rkind' = [rkind EXCEPT ![r] = k]
  /\ IF IsTarget(k)
     THEN IF AlreadyResolved(resolved)
          THEN /\ hpc' = [hpc EXCEPT ![r] = "abortLate"]
               /\ UNCHANGED <<resolved, timeoutId, winner, hlog>>
          ELSE /\ resolved' = MarkResolved(resolved)
               /\ timeoutId' = IF timeoutId # "null" THEN "null" ELSE timeoutId
               /\ winner' = r
               /\ hlog' = <<>>
               /\ hpc' = [hpc EXCEPT ![r] = "cookies"]
     ELSE /\ hpc' = [hpc EXCEPT ![r] = "pass"]
          /\ UNCHANGED <<resolved, timeoutId, winner, hlog>>
  /\ UNCHANGED <<xpc, context, m3u8Promise, resolveCalls, cookieString,
                 contextCloses, xret, teardownErrors,
                 serviceVars, procVars, edgeVars>>

\* variant of CookiesSettle: the handler resolves the pipeline before it
\* aborts the request
CookiesSettleResolves(r, ok) ==
  /\ hpc[r] = "cookies"
  /\ cookieString' = [cookieString EXCEPT ![r] = IF ok THEN "captured" ELSE "undefined"]
  /\ ResolvePromise([st |-> "stream", url |-> r, headers |-> r,
                     cookies |-> cookieString'[r]])
  /\ hlog' = IF r = winner THEN hlog \o <<"snapshot", "resolve", "abort">> ELSE hlog
  /\ hpc' = [hpc EXCEPT ![r] = "abort"]
  /\ UNCHANGED <<xpc, context, resolved, timeoutId, rkind, winner,
                 contextCloses, xret, teardownErrors,
                 serviceVars, procVars, edgeVars>>

\* context.cookies() settles (131-138): the snapshot is kept, or nothing on
\* a rejection; then route.abort() is called and awaited (141)
CookiesSettle(r, ok) ==
  /\ hpc[r] = "cookies"
  /\ cookieString' = [cookieString EXCEPT ![r] = IF ok THEN "captured" ELSE "undefined"]
  /\ hlog' = IF r = winner THEN hlog \o <<"snapshot", "abort">> ELSE hlog
  /\ hpc' = [hpc EXCEPT ![r] = "abort"]
  /\ UNCHANGED <<xpc, context, resolved, timeoutId, m3u8Promise, resolveCalls,
                 rkind, winner, contextCloses, xret, teardownErrors,
                 serviceVars, procVars, edgeVars>>

\* route.abort() of the manifest taken settles (141): the handler resolves
\* the pipeline (155-164), or it rejects with abort() and resolves nothing
AbortSettle(r, ok) ==
  /\ hpc[r] = "abort"
  /\ IF ok
     THEN /\ ResolvePromise([st |-> "stream", url |-> r, headers |-> r,
                             cookies |-> cookieString[r]])
          /\ hlog' = IF r = winner THEN Append(hlog, "resolve") ELSE hlog
          /\ hpc' = [hpc EXCEPT ![r] = "done"]
     ELSE /\ hpc' = [hpc EXCEPT ![r] = "threw"]
          /\ UNCHANGED <<m3u8Promise, resolveCalls, hlog>>
  /\ UNCHANGED <<xpc, context, resolved, timeoutId, rkind, cookieString,
                 winner, contextCloses, xret, teardownErrors,
                 serviceVars, procVars, edgeVars>>

\* the abort or continue of any other handler settles (110, 168-200)
HandlerSettle(r) ==
  /\ hpc[r] \in {"abortLate", "pass"}
  /\ hpc' = [hpc EXCEPT ![r] = IF hpc[r] = "abortLate" THEN "aborted" ELSE "passed"]
  /\ UNCHANGED <<xpc, context, resolved, timeoutId, m3u8Promise, resolveCalls,
                 rkind, cookieString, winner, hlog, contextCloses, xret,
                 teardownErrors,
                 serviceVars, procVars, edgeVars>>

\* ------------------------------- watchdog and shutdown (index.ts 26-121)

Running == exitCode = NoExit

\* variant of ExitDue: the threshold itself is not enough
ExitDueStrict(openDuration) == openDuration > CIRCUIT_BREAKER_EXIT_THRESHOLD

\* the watchdog's test: openDuration >= CIRCUIT_BREAKER_EXIT_THRESHOLD
ExitDue(openDuration) == openDuration >= CIRCUIT_BREAKER_EXIT_THRESHOLD

\* variant of SinceAfterClosedPoll: a poll that finds the circuit closed
\* keeps the recorded time
SinceAfterClosedPollKept(since) == since

\* the watchdog's else branch: circuitOpenSince = null
SinceAfterClosedPoll(since) == NoTime

\* variant of StoppedWatchdog: shutdown leaves the interval running
StoppedWatchdogNot(timer) == timer

\* shutdown, step 1: clearInterval(watchdogTimer)
StoppedWatchdog(timer) == "cleared"

\* variant of IgnoresSignal: shutdown has no guard
IgnoresSignalNever(inProgress) == FALSE

\* shutdown's guard: `if (shutdownInProgress) return`
IgnoresSignal(inProgress) == inProgress

\* the interval's callback is due
WatchdogDue == watchdogTimer = "running" /\ now - lastPoll >= WATCHDOG_INTERVAL

\* the forceTimeout timer of a shutdown is due
ForceDue == forceDeadline # NoTime /\ now >= forceDeadline

\* no request is in flight: both servers' close callbacks have run
Drained == \A p \in Procs : pc[p] = "new"

\* the watchdog interval's callback
WatchdogPoll ==
  /\ Running
  /\ Quiescent
  /\ WatchdogDue
  /\ lastPoll' = now
  /\ IF IsCircuitOpen(circuitOpenUntil, now)
     THEN LET since == IF circuitOpenSince = NoTime THEN now ELSE circuitOpenSince
          IN /\ circuitOpenSince' = since
             /\ exitCode' = IF ExitDue(now - since) THEN 1 ELSE exitCode
     ELSE /\ circuitOpenSince' = SinceAfterClosedPoll(circuitOpenSince)
          /\ UNCHANGED exitCode
  /\ closedPollAt' = IF IsCircuitOpen(circuitOpenUntil, now) THEN closedPollAt ELSE now
  /\ UNCHANGED <<watchdogTimer, shutdownInProgress, forceDeadline,
                 serverCloseCalls, shutdownRuns, signals, serviceVars, pipeVars, edgeVars>>

\* SIGTERM or SIGINT: shutdown() up to its first await; a signal that finds a
\* shutdown in progress is ignored, otherwise the watchdog is stopped, both
\* servers are told to close and the forceTimeout timer is set
Signal ==
  /\ Running
  /\ Quiescent
  /\ signals < MaxSignals
  /\ signals' = signals + 1
  /\ IF IgnoresSignal(shutdownInProgress)
     THEN UNCHANGED <<shutdownInProgress, watchdogTimer, serverCloseCalls,
                      forceDeadline, shutdownRuns>>
     ELSE /\ shutdownInProgress' = TRUE
          /\ watchdogTimer' = StoppedWatchdog(watchdogTimer)
          /\ serverCloseCalls' = serverCloseCalls + 1
          /\ forceDeadline' = now + SHUTDOWN_TIMEOUT
          /\ shutdownRuns' = shutdownRuns + 1
  /\ UNCHANGED <<circuitOpenSince, lastPoll, exitCode, closedPollAt, serviceVars, pipeVars, edgeVars>>

\* shutdown, steps 3 and 4: the race is won by the servers' close or by
\* forceTimeout, and browserPool.close() is called
ShutdownClose ==
  /\ Running
  /\ shutdownInProgress
  /\ Drained \/ ForceDue
  /\ Shutdown

\* shutdown, after `await browserPool.close()`: process.exit(0)
ShutdownExit ==
  /\ Running
  /\ shutdownInProgress
  /\ closeState.st = "done"
  /\ exitCode' = 0
  /\ UNCHANGED <<circuitOpenSince, watchdogTimer, lastPoll, shutdownInProgress,
                 forceDeadline, serverCloseCalls, shutdownRuns, signals,
                 closedPollAt, serviceVars, pipeVars, edgeVars>>

\* ------------------------------------ GET /health (routes/health.ts 6-27)

\* variant of HealthStatus: the route always answers 200
HealthStatusAlwaysOk(isCircuitOpen) == 200

\* res.status(isHealthy ? 200 : 503) with isHealthy = !isCircuitOpen
HealthStatus(isCircuitOpen) == IF isCircuitOpen THEN 503 ELSE 200

\* status: isHealthy ? 'ok' : 'unhealthy'
HealthText(isCircuitOpen) == IF isCircuitOpen THEN "unhealthy" ELSE "ok"

\* the route's handler: getStatus() reads isCircuitOpen() at the time of the
\* request
GetHealth ==
  /\ Quiescent
  /\ LET open == IsCircuitOpen(circuitOpenUntil, now)
     IN healthResponse' = [status |-> HealthStatus(open), text |-> HealthText(open),
                           at |-> now]
  /\ UNCHANGED <<request, decision, serviceVars, pipeVars, procVars>>

\* --------------------- the route handler's rules (extractor.ts 102-200)

\* what the handler does with a request: the manifest branch (107-166), the
\* blocking rules in their order (168-198), or route.continue() (200)
RouteDecision(rq) ==
  IF IsTarget(rq.kind) THEN "manifest"
  ELSE IF rq.resourceType \in {"image", "font", "stylesheet"} THEN "abort"
  ELSE IF rq.resourceType = "script" /\ ~rq.isPlayerScript /\ rq.shouldBlock THEN "abort"
  ELSE IF rq.resourceType \in {"xhr", "fetch"} /\ rq.telemetry THEN "abort"
  ELSE IF rq.shouldBlock THEN "abort"
  ELSE "continue"

\* the handler runs for a request
HandleRequest(rq) ==
  /\ request' = rq
  /\ decision' = RouteDecision(rq)
  /\ UNCHANGED <<healthResponse, serviceVars, pipeVars, procVars>>

\* ------------------------------------------------------ specifications

\* the queue: submissions through withLimit and POST /extract by every
\* caller; launches succeed and the clock stands still
NextQueue ==
  \/ \E p \in Procs, pr \in {PRIORITY_NORMAL, PRIORITY_HIGH} : WithLimit(p, pr)
  \/ \E p \in Procs, param \in PriorityParams : PostExtract(p, param)
  \/ \E p \in Procs, o \in {"resolved", "threw", "stream"} : FnSettle(p, o)
  \/ \E p \in Procs : QueueNext(p)
  \/ \E p \in Procs : Respond(p)
  \/ \E p \in Procs : RequestDone(p)
  \/ \E p \in Procs : LaunchSettle(p, TRUE)
  \/ \E p \in Procs : GbLauncherResume(p)
  \/ \E p \in Procs : GbJoinerResume(p)
  \/ \E p \in Procs : GbReturn(p)

SpecQueue == Init /\ [][NextQueue]_vars

\* the browser lifecycle: acquisitions inside and outside withLimit by the
\* callers of Callers, restarts, disconnects, close() and the clock;
\* launches succeed
NextPool ==
  \/ \E p \in Callers : PostExtract(p, "normal")
  \/ \E p \in Callers : FnSettle(p, "stream")
  \/ \E p \in Callers : QueueNext(p)
  \/ \E p \in Callers : Respond(p)
  \/ \E p \in Callers : RequestDone(p)
  \/ \E p \in Callers : CallGetBrowser(p)
  \/ \E p \in Callers : GbAfterRestart(p)
  \/ \E p \in Callers : LaunchSettle(p, TRUE)
  \/ \E p \in Callers : GbLauncherResume(p)
  \/ \E p \in Callers : GbJoinerResume(p)
  \/ \E p \in Callers : GbReturn(p)
  \/ IdleFire
  \/ Close
  \/ \E h \in Handles : Disconnect(h)
  \/ \E h \in Handles : HandleCloseSettle(h)
  \/ now < PoolMaxTime /\ Tick

SpecPool == Init /\ [][NextPool]_vars

\* the circuit breaker: direct acquisitions whose launches succeed or fail,
\* max-age restarts, and the clock
NextCircuit ==
  \/ \E p \in Callers : CallGetBrowser(p)
  \/ \E p \in Callers, ok \in BOOLEAN : LaunchSettle(p, ok)
  \/ \E p \in Callers : GbLauncherResume(p)
  \/ \E p \in Callers : GbJoinerResume(p)
  \/ \E p \in Callers : GbReturn(p)
  \/ \E p \in Callers : GbAfterRestart(p)
  \/ \E h \in Handles : HandleCloseSettle(h)
  \/ Tick

SpecCircuit == Init /\ [][NextCircuit]_vars

\* POST /extract end to end: requests whose launches succeed or fail, whose
\* browser may be lost, and whose extraction ends in every possible way; the
\* clock stands still
NextExtract ==
  \/ \E p \in Callers : PostExtract(p, "normal")
  \/ \E p \in Callers,
        o \in {"stream", "timeout", "driver_error", "circuit_open", "launch_error"} :
          FnSettle(p, o)
  \/ \E p \in Callers : QueueNext(p)
  \/ \E p \in Callers : Respond(p)
  \/ \E p \in Callers : RequestDone(p)
  \/ \E p \in Callers, ok \in BOOLEAN : LaunchSettle(p, ok)
  \/ \E p \in Callers : GbLauncherResume(p)
  \/ \E p \in Callers : GbJoinerResume(p)
  \/ \E p \in Callers : GbReturn(p)
  \/ \E h \in Handles : Disconnect(h)
  \/ \E h \in Handles : ConnectionLost(h)
  \/ \E h \in Handles : DisconnectedEvent(h)

SpecExtract == Init /\ [][NextExtract]_vars

\* a batch: every caller submits at most one task through withLimit, in any
\* order and at any moment; every fn settles, resolving or throwing
NextDrain ==
  \/ \E p \in Procs, pr \in {PRIORITY_NORMAL, PRIORITY_HIGH} : WithLimitOnce(p, pr)
  \/ \E p \in Procs, o \in {"resolved", "threw"} : FnSettle(p, o)
  \/ \E p \in Procs : QueueNext(p)

\* every fn eventually settles, and the continuation of a settled job runs
SpecDrain ==
  /\ Init
  /\ [][NextDrain]_vars
  /\ \A p \in Procs : WF_vars(\E o \in {"resolved", "threw"} : FnSettle(p, o))
  /\ \A p \in Procs : WF_vars(QueueNext(p))

\* shutdown: requests are accepted until shutdown() calls close(); the
\* operations in flight at that moment go on and finish
NextShutdown ==
  \/ \E p \in Callers : closeState.st = "none" /\ PostExtract(p, "normal")
  \/ \E p \in Callers : FnSettle(p, "stream")
  \/ \E p \in Callers : QueueNext(p)
  \/ \E p \in Callers : Respond(p)
  \/ \E p \in Callers : RequestDone(p)
  \/ \E p \in Callers : LaunchSettle(p, TRUE)
  \/ \E p \in Callers : GbLauncherResume(p)
  \/ \E p \in Callers : GbJoinerResume(p)
  \/ \E p \in Callers : GbReturn(p)
  \/ IdleFire
  \/ Shutdown
  \/ \E h \in Handles : HandleCloseSettle(h)
  \/ now < PoolMaxTime /\ Tick

SpecShutdown == Init /\ [][NextShutdown]_vars

\* one extraction from its admission to its return: every driver call may
\* resolve or reject, requests of every kind may reach the route handler,
\* and the timer may fire at any moment after it was set
NextPipeline ==
  \/ DoExtraction
  \/ \E ok \in BOOLEAN : CreateContextSettle(ok)
  \/ \E ok \in BOOLEAN : RouteSettle(ok)
  \/ \E ok \in BOOLEAN : NewPageSettle(ok)
  \/ GotoSettle
  \/ Wait1Settle
  \/ Click1Settle
  \/ \E frames \in BOOLEAN : Wait2Settle(frames)
  \/ FramesSettle
  \/ AwaitM3u8
  \/ \E ok \in BOOLEAN : UnrouteSettle(ok)
  \/ \E ok \in BOOLEAN : ClosePagesSettle(ok)
  \/ \E ok \in BOOLEAN : CloseContextSettle(ok)
  \/ TimeoutFire
  \/ \E r \in Reqs, k \in {"m3u8", "ts.m3u8", "other"} : RouteHandler(r, k)
  \/ \E r \in Reqs, ok \in BOOLEAN : CookiesSettle(r, ok)
  \/ \E r \in Reqs, ok \in BOOLEAN : AbortSettle(r, ok)
  \/ \E r \in Reqs : HandlerSettle(r)

SpecPipeline == Init /\ [][NextPipeline]_vars

\* every driver call settles, the timer fires, and every continuation that
\* can run does run; whether requests come is left to the page
PipelineFairness ==
  /\ WF_vars(DoExtraction)
  /\ WF_vars(\E ok \in BOOLEAN : CreateContextSettle(ok))
  /\ WF_vars(\E ok \in BOOLEAN : RouteSettle(ok))
  /\ WF_vars(\E ok \in BOOLEAN : NewPageSettle(ok))
  /\ WF_vars(GotoSettle)
  /\ WF_vars(Wait1Settle)
  /\ WF_vars(Click1Settle)
  /\ WF_vars(\E frames \in BOOLEAN : Wait2Settle(frames))
  /\ WF_vars(FramesSettle)
  /\ WF_vars(AwaitM3u8)
  /\ WF_vars(\E ok \in BOOLEAN : UnrouteSettle(ok))
  /\ WF_vars(\E ok \in BOOLEAN : ClosePagesSettle(ok))
  /\ WF_vars(\E ok \in BOOLEAN : CloseContextSettle(ok))
  /\ WF_vars(TimeoutFire)
  /\ \A r \in Reqs : WF_vars(\E ok \in BOOLEAN : CookiesSettle(r, ok))
  /\ \A r \in Reqs : WF_vars(\E ok \in BOOLEAN : AbortSettle(r, ok))
  /\ \A r \in Reqs : WF_vars(HandlerSettle(r))

SpecPipelineLive == SpecPipeline /\ PipelineFairness

\* the process: requests whose launches succeed or fail, the watchdog polling
\* the circuit every WATCHDOG_INTERVAL, signals, and the shutdown they start;
\* nothing runs after process.exit
NextProcess ==
  \/ \E p \in Clients : Running /\ ~shutdownInProgress /\ PostExtract(p, "normal")
  \/ \E p \in Clients, o \in {"stream", "circuit_open", "launch_error"} :
       Running /\ FnSettle(p, o)
  \/ \E p \in Clients : Running /\ QueueNext(p)
  \/ \E p \in Clients : Running /\ Respond(p)
  \/ \E p \in Clients : Running /\ RequestDone(p)
  \/ \E p \in Clients, ok \in BOOLEAN : Running /\ LaunchSettle(p, ok)
  \/ \E p \in Clients : Running /\ GbLauncherResume(p)
  \/ \E p \in Clients : Running /\ GbJoinerResume(p)
  \/ \E p \in Clients : Running /\ GbReturn(p)
  \/ Running /\ IdleFire
  \/ \E h \in Handles : Running /\ HandleCloseSettle(h)
  \/ WatchdogPoll
  \/ Signal
  \/ ShutdownClose
  \/ ShutdownExit
  \/ Running /\ ~WatchdogDue /\ ~(ForceDue /\ closeState.st = "none") /\ Tick

SpecProcess == Init /\ [][NextProcess]_vars

\* the circuit breaker observed through GET /health
NextHealth ==
  \/ \E p \in Callers : CallGetBrowser(p)
  \/ \E p \in Callers, ok \in BOOLEAN : LaunchSettle(p, ok)
  \/ \E p \in Callers : GbLauncherResume(p)
  \/ \E p \in Callers : GbJoinerResume(p)
  \/ \E p \in Callers : GbReturn(p)
  \/ \E p \in Callers : GbAfterRestart(p)
  \/ \E h \in Handles : HandleCloseSettle(h)
  \/ Tick
  \/ GetHealth

SpecHealth == Init /\ [][NextHealth]_vars

\* requests of every resource type and URL reaching the route handler
NextRules == \E rq \in Requests : HandleRequest(rq)

SpecRules == Init /\ [][NextRules]_vars

TypeOK ==
  /\ browser \in Handles \cup {NoHandle}
  /\ launching \in Procs \cup {NoProc}
  /\ activeCount \in 0..NumProcs
  /\ pending \in 0..NumProcs
  /\ idleTimer \in {"null", "armed", "stale"}
  /\ consecutiveFailures \in 0..MaxLaunchFailures
  /\ now \in 0..(MaxTime + TickMs)
  /\ pendingTimers \in 0..NumProcs
  /\ submitted \subseteq Procs
  /\ closeState.st \in {"none", "awaiting", "done"}


\* ================================================================ claims

\* callers whose wrapper has been started and whose fn has not settled
Admitted ==
  {p \in Procs : /\ kind[p] # "direct"
                 /\ pc[p] \notin {"new", "queued", "settled", "respond", "responded"}}

\* positions inside getBrowser
GbPcs == {"gbDone", "gbLauncher", "gbJoined", "gbJoinReady", "gbAwaitClose", "gbAfterRestart"}

\* caller p's getBrowser call runs its first synchronous part in this step
AcquireStep(p) == pc[p] \in {"new", "queued"} /\ pc'[p] \in GbPcs

IndexOf(w, id) == CHOOSE i \in 1..Len(w) : w[i].id = id

\* C1: in every reachable state the number of admitted-and-not-yet-completed
\* tasks, which is what activeCount counts, is at most MAX_CONCURRENT
C1_ActiveBound ==
  /\ activeCount = Cardinality(Admitted)
  /\ activeCount <= MAX_CONCURRENT

\* a task has thrown while the bound was reached and another caller waits
C1_Witness ==
  \E p \in Procs : /\ pc[p] = "settled" /\ res[p] = "threw"
                   /\ pending = MAX_CONCURRENT /\ queue # <<>>

\* C2: of the tasks waiting at the moment of an admission, the admitted one
\* has a higher priority than every other one, or the same priority and an
\* earlier submission
C2_PriorityThenFifo ==
  admitInfo.id # NoProc =>
    LET w == admitInfo.waiting
        a == IndexOf(w, admitInfo.id)
    IN \A i \in 1..Len(w) :
         i # a => \/ w[a].priority > w[i].priority
                  \/ w[a].priority = w[i].priority /\ a < i

\* a high-priority task was admitted ahead of a low-priority task that had
\* been submitted before it
C2_Witness ==
  /\ admitInfo.id # NoProc
  /\ LET w == admitInfo.waiting
         a == IndexOf(w, admitInfo.id)
     IN \E i \in 1..Len(w) : i < a /\ w[i].priority < w[a].priority

\* C3: a POST /extract request of priority "normal" is never admitted while
\* a POST /extract request of priority "high" is waiting
C3_RequestPriorityHonoured ==
  admitInfo.id # NoProc =>
    LET w == admitInfo.waiting
        a == IndexOf(w, admitInfo.id)
    IN \A i \in 1..Len(w) :
         ~(w[a].req = PRIORITY_NORMAL /\ w[i].req = PRIORITY_HIGH)

\* C4: an admitted task stays admitted until its own fn settles, and the
\* step of a submission leaves every admitted task where it is
C4_NoPreemption ==
  [][\A p \in Procs :
       p \in Admitted =>
         /\ \/ pc'[p] \notin {"new", "queued", "settled"} /\ kind'[p] = kind[p]
            \/ pc'[p] = "settled" /\ activeCount' = activeCount - 1
         /\ \A q \in Procs \ {p} :
              (pc[q] = "new" /\ pc'[q] # "new") => pc'[p] = pc[p]]_vars

\* a submission of higher priority waits while a task of lower priority runs
C4_Witness ==
  \E p \in Admitted, q \in Procs : pc[q] = "queued" /\ prio[q] > prio[p]

\* C5: no launch is in flight at startup, and a launch is started only in a
\* step in which its caller's getBrowser call runs; a step that closes,
\* loses or finishes closing a browser starts no launch
C5_LaunchOnlyOnAcquisition ==
  /\ InFlight = {} /\ browser = NoHandle /\ LiveHandles = {}
  /\ [][/\ \A p \in Procs :
            (lstate'[p] = "pending" /\ lstate[p] # "pending") =>
              /\ pc'[p] = "gbLauncher"
              /\ AcquireStep(p) \/ pc[p] = "gbAfterRestart"
        /\ (\E h \in Handles : hstate[h] # hstate'[h] /\ hstate'[h] # "live") =>
             InFlight' = InFlight]_vars

\* a relaunch started by an acquisition is in flight while the browser
\* closed by a restart is still closing
C5_Witness ==
  /\ \E p \in Procs : pc[p] = "gbLauncher" /\ lstate[p] = "pending"
  /\ \E h \in Handles : hstate[h] = "closing"

\* C6: at most one launch is in flight; every caller waiting for a launch
\* waits for the launch in flight, and a caller resuming from a launch holds
\* the handle that launch produced
C6_SingleLaunch ==
  /\ Cardinality(InFlight) <= 1
  /\ \A p \in Procs :
       pc[p] = "gbJoined" =>
         /\ waitOn[p] = launching
         /\ lstate[launching] = "pending"
         /\ pc[launching] = "gbLauncher"
  /\ \A p \in Procs :
       (pc[p] = "gbJoinReady" /\ res[p] = "browser") =>
         got[p] = (IF launching # NoProc THEN lres[launching] ELSE browser)

\* a second caller waits on the first caller's launch
C6_Witness ==
  \E p, q \in Procs : pc[p] = "gbLauncher" /\ pc[q] = "gbJoined" /\ waitOn[q] = p

\* C7: in every reachable state at most one browser handle launched by the
\* pool is live
C7_OneLiveHandle == Cardinality(LiveHandles) <= 1

\* C8: the circuit is open once CIRCUIT_BREAKER_THRESHOLD consecutive
\* launches have failed, and an acquisition made while reopenAt > now fails
\* with the circuit-open error, starts no launch and leaves
\* consecutiveFailures, reopenAt and the launch-failure counter unchanged
C8_OpenCircuitFailsFast ==
  [][/\ (consecutiveFailures' = consecutiveFailures + 1
          /\ consecutiveFailures' >= CIRCUIT_BREAKER_THRESHOLD) =>
            circuitOpenUntil' > now'
     /\ \A p \in Procs :
          (AcquireStep(p) /\ circuitOpenUntil > now) =>
            /\ consecutiveFailures >= CIRCUIT_BREAKER_THRESHOLD
            /\ pc'[p] = "gbDone"
            /\ res'[p] = "circuit_open"
            /\ lstate' = lstate
            /\ launching' = launching
            /\ launchTime' = launchTime
            /\ consecutiveFailures' = consecutiveFailures
            /\ circuitOpenUntil' = circuitOpenUntil
            /\ browserLaunchFailures' = browserLaunchFailures]_vars

\* an acquisition has just been rejected by the open circuit
C8_Witness ==
  \E p \in Procs : /\ pc[p] = "gbDone" /\ res[p] = "circuit_open"
                   /\ circuitOpenUntil > now
                   /\ consecutiveFailures = CIRCUIT_BREAKER_THRESHOLD

\* C9: an acquisition made once now >= reopenAt is not rejected by the
\* circuit and, when the pool has no browser and no launch in progress,
\* starts a launch; a launch that succeeds sets consecutiveFailures to 0,
\* reopenAt to 0 and the gauge to 0
C9_RetryAfterCoolDown ==
  [][/\ \A p \in Procs :
          (AcquireStep(p) /\ circuitOpenUntil <= now) =>
            /\ res'[p] # "circuit_open"
            /\ (browser = NoHandle /\ launching = NoProc) =>
                 (pc'[p] = "gbLauncher" /\ lstate'[p] = "pending")
     /\ \A l \in Procs :
          (lstate[l] = "pending" /\ lstate'[l] = "ok") =>
            /\ consecutiveFailures' = 0
            /\ circuitOpenUntil' = 0
            /\ circuitBreakerOpen' = 0]_vars

\* the circuit has tripped, the cool-down has elapsed and an acquisition
\* has started a launch again
C9_Witness ==
  /\ consecutiveFailures >= CIRCUIT_BREAKER_THRESHOLD
  /\ circuitOpenUntil > 0
  /\ circuitOpenUntil <= now
  /\ \E p \in Procs : pc[p] = "gbLauncher" /\ lstate[p] = "pending"

\* C10: with fewer than CIRCUIT_BREAKER_THRESHOLD consecutive failures the
\* circuit is closed, and when a launch has succeeded consecutiveFailures is 0
C10_NoEarlyTrip ==
  /\ consecutiveFailures < CIRCUIT_BREAKER_THRESHOLD =>
       (circuitOpenUntil = 0 /\ circuitBreakerOpen = 0)
  /\ \A l \in Procs :
       lstate[l] = "ok" => (consecutiveFailures = 0 /\ circuitOpenUntil = 0)

\* the first CIRCUIT_BREAKER_THRESHOLD - 1 launches failed and the next one
\* has succeeded
C10_Witness ==
  /\ now = TickMs
  /\ browserLaunchFailures = CIRCUIT_BREAKER_THRESHOLD - 1
  /\ consecutiveFailures = 0
  /\ \E l \in Procs : lstate[l] = "ok"


\* C11: a failed launch makes every caller waiting on it fail with the
\* launch's error, and so does the caller that started it; consecutiveFailures
\* grows by exactly 1 in the step of the failure and in no other step
C11_LaunchFailureShared ==
  [][/\ \A l \in Procs :
          (lstate[l] = "pending" /\ lstate'[l] = "fail") =>
            /\ consecutiveFailures' = consecutiveFailures + 1
            /\ \A q \in Procs :
                 (pc[q] = "gbJoined" /\ waitOn[q] = l) =>
                   /\ pc'[q] = "gbJoinReady"
                   /\ res'[q] = "launch_error"
                   /\ got'[q] = lres'[l]
     /\ \A p \in Procs :
          (pc[p] = "gbLaunchReady" /\ lstate[p] = "fail" /\ pc'[p] # pc[p]) =>
            /\ pc'[p] = "gbDone"
            /\ res'[p] = "launch_error"
            /\ got'[p] = lres[p]
     /\ \A q \in Procs :
          (pc[q] = "gbJoinReady" /\ res[q] = "launch_error" /\ pc'[q] # pc[q]) =>
            /\ pc'[q] = "gbDone"
            /\ res'[q] = "launch_error"
            /\ got'[q] = got[q]
     /\ consecutiveFailures' > consecutiveFailures =>
          \E l \in Procs : lstate[l] = "pending" /\ lstate'[l] = "fail"]_vars

\* a launch has failed while another caller was waiting on it
C11_Witness ==
  \E l, q \in Procs :
    /\ pc[l] = "gbLaunchReady" /\ lstate[l] = "fail"
    /\ pc[q] = "gbJoinReady" /\ res[q] = "launch_error" /\ got[q] = lres[l]
    /\ consecutiveFailures = 1


\* C12: a request whose extraction was rejected by the open circuit is
\* answered with status 503 and the circuit-open message, and is counted as
\* failure/circuit_open
C12_CircuitOpenIs503 ==
  \A p \in Procs :
    (pc[p] = "responded" /\ cause[p] = "circuit_open") =>
      /\ response[p].status = 503
      /\ response[p].error = "Circuit breaker open"
      /\ response[p].counted = "failure/circuit_open"

\* C13: a request whose extraction ended with a failed driver call after its
\* browser disconnected is answered with status 503 and is counted as
\* failure/browser_error
C13_DriverErrorIs503 ==
  \A p \in Procs :
    (pc[p] = "responded" /\ cause[p] = "driver_error") =>
      /\ response[p].status = 503
      /\ response[p].counted = "failure/browser_error"

\* C14: the 'disconnected' event of the current handle clears the pool's
\* reference; an acquisition that finds a handle that is not connected clears
\* the reference and, unless the circuit is open, waits for a launch; no
\* acquisition returns a handle that is not connected
C14_DisconnectedNeverReturned ==
  [][/\ \A h \in Handles :
          (hstate'[h] = "disconnected" /\ hstate[h] # "disconnected") => browser' # h
     /\ \A p \in Procs :
          (AcquireStep(p) /\ browser # NoHandle
             /\ hstate[browser] \in {"lost", "disconnected"}) =>
            IF circuitOpenUntil > now
            THEN res'[p] = "circuit_open"
            ELSE /\ browser' = NoHandle
                 /\ pc'[p] \in {"gbLauncher", "gbJoined"}
     /\ \A p \in Procs :
          (pc'[p] = "gbDone" /\ pc[p] # "gbDone" /\ res'[p] = "browser") =>
            hstate'[got'[p]] \notin {"lost", "disconnected"}]_vars

\* an acquisition found the pool's handle not connected, cleared the
\* reference and started a launch
C14_Witness ==
  /\ browser = NoHandle
  /\ \E h \in Handles : hstate[h] = "lost"
  /\ \E p \in Procs : pc[p] = "gbLauncher" /\ kind[p] = "extract"


\* a max-age restart: a getBrowser call starts waiting for the old browser's close
MaxAgeRestartStep == \E p \in Procs : pc'[p] = "gbAwaitClose" /\ pc[p] # "gbAwaitClose"

\* C15: a step in which the idle timer's callback or a max-age restart
\* nulls the reference and closes the browser happens with activeCount = 0
C15_NoRestartWhileActive ==
  [][((IdleFire \/ MaxAgeRestartStep) /\ browser # NoHandle /\ browser' = NoHandle) =>
       (activeCount' = 0 /\ hstate'[browser] = "closing")]_vars

\* an extraction was admitted when the browser was older than MAX_AGE_MS and
\* goes on with that browser
C15_Witness ==
  \E p \in Procs :
    /\ kind[p] = "extract" /\ pc[p] = "running" /\ got[p] = browser
    /\ browser # NoHandle /\ hstate[browser] = "live"
    /\ now - launchTime > MAX_AGE_MS
    /\ activeCount > 0


\* C16: the completion that brings activeCount to 0 arms the idle timer for
\* now + IDLE_TIMEOUT_MS; when the timer fires with activeCount = 0 and a
\* handle present, the reference is cleared and that handle's close is
\* started, a closing handle is not closed again, and the reference stays
\* empty until a getBrowser call installs the browser it launched
C16_IdleRestart ==
  [][/\ (activeCount > 0 /\ activeCount' = 0) =>
          (idleTimer' = "armed" /\ idleDeadline' = now + IDLE_TIMEOUT_MS)
     /\ (IdleFire /\ activeCount = 0 /\ browser # NoHandle) =>
          /\ browser' = NoHandle
          /\ hstate[browser] = "live"
          /\ hstate'[browser] = "closing"
          /\ idleTimer' = "null"
     /\ \A h \in Handles : hstate[h] = "closing" => hstate'[h] \in {"closing", "free"}
     /\ (browser = NoHandle /\ browser' # NoHandle) =>
          \E p \in Procs : /\ pc[p] = "gbLaunchReady" /\ pc'[p] = "gbDone"
                           /\ lstate[p] = "ok" /\ browser' = lres[p]]_vars

\* the idle timer has fired after the last extraction: the browser is
\* closing, the pool holds no handle and nothing is active
C16_Witness ==
  /\ browser = NoHandle
  /\ launching = NoProc
  /\ activeCount = 0
  /\ idleTimer = "null"
  /\ now > TickMs
  /\ \E h \in Handles : hstate[h] = "closing"
  /\ \A p \in Procs : pc[p] = "new"


\* C17: at most one idle timeout is pending, and it is the one held in
\* this.idleTimer; none is pending while a task is active; the admission of a
\* task leaves no timeout pending, and the completion that brings the active
\* count to zero leaves exactly one pending
C17_OneIdleTimer ==
  /\ [](/\ pendingTimers <= 1
        /\ (idleTimer = "armed") <=> (pendingTimers = 1)
        /\ activeCount > 0 => pendingTimers = 0)
  /\ [][/\ activeCount' > activeCount =>
             (pendingTimers' = 0 /\ idleTimer' = "null")
        /\ (activeCount > 0 /\ activeCount' = 0) =>
             (pendingTimers' = 1 /\ idleTimer' = "armed")]_vars

\* the last active extraction has just completed at a later time than the
\* browser's launch: one idle timeout is pending
C17_Witness ==
  /\ pendingTimers = 1
  /\ idleTimer = "armed"
  /\ idleDeadline = now + IDLE_TIMEOUT_MS
  /\ activeCount = 0
  /\ browser # NoHandle
  /\ now > launchTime
  /\ \E p \in Procs : pc[p] = "settled" /\ kind[p] = "extract"


\* C18: an extraction admitted as the only active one, whose acquisition
\* finds a connected browser older than MAX_AGE_MS, restarts that browser
C18_MaxAgeRestartOnAdmission ==
  [][\A p \in Procs :
       (/\ AcquireStep(p) /\ kind'[p] = "extract"
        /\ activeCount' = 1
        /\ browser # NoHandle /\ hstate[browser] = "live"
        /\ now - launchTime > MAX_AGE_MS
        /\ circuitOpenUntil <= now) =>
         /\ pc'[p] = "gbAwaitClose"
         /\ browser' = NoHandle
         /\ hstate'[browser] = "closing"]_vars


\* C19: when every caller submits at most one task and every fn settles,
\* eventually and for ever every submitted task has completed, activeCount
\* is 0 and no job is pending or waiting
C19_BatchDrains ==
  <>[](/\ activeCount = 0
       /\ pending = 0
       /\ queue = <<>>
       /\ \A p \in Procs : pc[p] = "new")

\* more tasks than the bound were submitted and all have completed
C19_Witness ==
  /\ submitted = Procs
  /\ Cardinality(submitted) > MAX_CONCURRENT
  /\ activeCount = 0
  /\ pending = 0
  /\ queue = <<>>
  /\ \A p \in Procs : pc[p] = "new"


\* C20: once close() has completed the pool holds no handle, no browser it
\* launched is live and no idle timeout is pending
C20_ShutdownLeavesNothing ==
  closeState.st = "done" =>
    /\ browser = NoHandle
    /\ LiveHandles = {}
    /\ pendingTimers = 0

\* the target requests whose handlers have started
TargetsSeen == {r \in Reqs : hpc[r] # "none" /\ IsTarget(rkind[r])}

\* C21: an extraction delivers at most one outcome: resolvePromise is called
\* at most once; a pipeline that a manifest handler has taken is never
\* resolved by the timer, and a pipeline resolved by the timer is never taken
\* by a manifest handler
C21_OneOutcome ==
  /\ resolveCalls <= 1
  /\ winner # NoRequest => m3u8Promise.st # "null" /\ timeoutId # "fired"
  /\ m3u8Promise.st = "null" => winner = NoRequest /\ timeoutId = "fired"

\* a manifest request has come after the timer resolved the pipeline
C21_Witness ==
  /\ m3u8Promise.st = "null"
  /\ \E r \in TargetsSeen : hpc[r] \in {"abortLate", "aborted"}

\* C22: every extraction that was started returns, whatever the driver calls
\* settle with
C22_ExtractionReturns == (xpc = "createContext") ~> (xpc = "returned")

\* C23: context.close() is never called twice, and an extraction that has
\* returned after obtaining a context has called it once
C23_ContextClosedOnce ==
  /\ contextCloses <= 1
  /\ xpc = "returned" =>
       IF context = "null" THEN contextCloses = 0
       ELSE context = "closed" /\ contextCloses = 1

\* the extraction has returned after a driver error that followed
\* createContext
C23_Witness ==
  /\ xpc = "returned"
  /\ context = "closed"
  /\ xret = "null"
  /\ m3u8Promise.st = "pending"

\* C24: the first target request to reach the handler of an unresolved
\* pipeline is the only one whose handler goes past the flag; every other
\* target request is aborted, and a stream result carries the URL, headers
\* and cookies of that first request
C24_FirstManifestWins ==
  /\ \A r \in TargetsSeen : r # winner => hpc[r] \in {"abortLate", "aborted"}
  /\ winner # NoRequest => \A r \in TargetsSeen : r < winner => hpc[r] = "aborted" \/ hpc[r] = "abortLate"
  /\ m3u8Promise.st = "stream" =>
       /\ m3u8Promise.url = winner
       /\ m3u8Promise.headers = winner
       /\ m3u8Promise.cookies = cookieString[winner]

\* a second target request has come while the first handler was awaiting
\* cookies() or abort(), and the result is the first one's
C24_Witness ==
  /\ m3u8Promise.st = "stream"
  /\ \E r \in TargetsSeen : r > winner /\ rkind[r] = "m3u8" /\ hpc[r] = "abortLate"
  /\ hlog = <<"snapshot", "abort", "resolve">>
  /\ \E r \in TargetsSeen : r > winner /\ hpc[r] = "aborted"

\* C25: the winning handler takes the cookie snapshot, then calls abort(),
\* then resolves the pipeline
C25_SnapshotAbortResolve ==
  /\ \E n \in 0..3 : hlog = SubSeq(<<"snapshot", "abort", "resolve">>, 1, n)
  /\ m3u8Promise.st = "stream" => hlog = <<"snapshot", "abort", "resolve">>

\* the winning handler has resolved the pipeline with a captured snapshot
C25_Witness ==
  /\ m3u8Promise.st = "stream"
  /\ m3u8Promise.cookies = "captured"
  /\ hpc[winner] = "done"

\* C26: a request whose URL includes .ts.m3u8 never sets the flag, never
\* resolves the pipeline and never clears the timer
C26_TsManifestIgnored ==
  [][\A r \in Reqs :
       hpc[r] = "none" /\ hpc'[r] # "none" /\ rkind'[r] = "ts.m3u8" =>
         /\ UNCHANGED <<resolved, timeoutId, m3u8Promise, resolveCalls, winner>>
         /\ hpc'[r] = "pass"]_vars

\* a .ts.m3u8 request came first, the timer still pending, and the real
\* manifest after it
C26_Witness ==
  /\ \E r \in Reqs : rkind[r] = "ts.m3u8" /\ hpc[r] = "passed"
                     /\ winner > r /\ m3u8Promise.url = winner
  /\ \E r \in Reqs : rkind[r] = "ts.m3u8" /\ r > winner /\ winner # NoRequest /\ hpc[r] # "none"

\* C27: once the timer has resolved the pipeline, the extraction is not
\* waiting for the navigation, a settle wait or a click
C27_TimeoutSupersedes ==
  m3u8Promise.st = "null" => xpc \notin DriverWaits

\* C28: at a watchdog poll that finds the circuit open, the process exits
\* with code 1 if an openSince is recorded and lies at least
\* CIRCUIT_BREAKER_EXIT_THRESHOLD back; if none is recorded the poll records
\* its own time and, the threshold being positive, does not exit
C28_WatchdogPoll ==
  [][lastPoll' # lastPoll /\ IsCircuitOpen(circuitOpenUntil, now) =>
       /\ circuitOpenSince # NoTime
            /\ now - circuitOpenSince >= CIRCUIT_BREAKER_EXIT_THRESHOLD
            => exitCode' = 1
       /\ circuitOpenSince = NoTime =>
            /\ circuitOpenSince' = now
            /\ CIRCUIT_BREAKER_EXIT_THRESHOLD > 0 => exitCode' = NoExit]_vars

\* the watchdog has exited the process, an earlier poll having recorded
\* openSince
C28_Witness ==
  /\ exitCode = 1
  /\ circuitOpenSince # NoTime
  /\ now - circuitOpenSince >= CIRCUIT_BREAKER_EXIT_THRESHOLD

\* C29: once shutdown has begun the process never exits with code 1
C29_NoWatchdogExitInShutdown ==
  [][shutdownInProgress => exitCode' # 1]_vars

\* during a shutdown's drain the circuit has been open for the threshold and
\* a watchdog period has passed since the last poll
C29_Witness ==
  /\ shutdownInProgress
  /\ Running
  /\ IsCircuitOpen(circuitOpenUntil, now)
  /\ circuitOpenSince # NoTime
  /\ now - circuitOpenSince >= CIRCUIT_BREAKER_EXIT_THRESHOLD
  /\ now - lastPoll >= WATCHDOG_INTERVAL

\* C30: whatever signals arrive, the servers are told to close at most once,
\* shutdown runs past its guard at most once, the pool is closed only by
\* that run, and an exit code once set stays
C30_ShutdownOnce ==
  /\ serverCloseCalls <= 1
  /\ shutdownRuns <= 1
  /\ closeState.st # "none" => shutdownRuns = 1
  /\ exitCode = 0 => shutdownRuns = 1 /\ closeState.st = "done"

\* a second signal came during the shutdown, which then completed
C30_Witness ==
  /\ signals = 2
  /\ shutdownRuns = 1
  /\ serverCloseCalls = 1
  /\ exitCode = 0

\* C31: GET /health answers 503 and "unhealthy" exactly when the circuit is
\* open at the time of the request (circuitOpenUntil > now), and 200 and
\* "ok" otherwise
C31_HealthFollowsCircuit ==
  [][healthResponse' # healthResponse =>
       IF circuitOpenUntil > now
       THEN healthResponse'.status = 503 /\ healthResponse'.text = "unhealthy"
       ELSE healthResponse'.status = 200 /\ healthResponse'.text = "ok"]_vars

\* the route has answered 503 after the circuit tripped
C31_Witness ==
  /\ healthResponse.status = 503
  /\ healthResponse.at = now
  /\ consecutiveFailures >= CIRCUIT_BREAKER_THRESHOLD

\* C32: a handle that is being closed is not the pool's reference, and an
\* acquisition that arrives while it is closing never receives it: with no
\* other browser installed and the circuit closed, it starts or joins a
\* launch
C32_ClosingHandleNeverReturned ==
  [][\A h \in Handles : hstate[h] = "closing" =>
       /\ browser # h
       /\ \A p \in Procs : AcquireStep(p) =>
            /\ ~(res'[p] = "browser" /\ got'[p] = h)
            /\ browser = NoHandle /\ ~IsCircuitOpen(circuitOpenUntil, now)
                 => pc'[p] \in {"gbLauncher", "gbJoined"}]_vars

\* a caller launches while the restarted handle is still closing
C32_Witness ==
  /\ browser = NoHandle
  /\ \E h \in Handles : hstate[h] = "closing"
  /\ \E p \in Procs : pc[p] = "gbLauncher" /\ lstate[p] = "pending"
  /\ \E p \in Procs : pc[p] = "gbJoined"

\* C33: an acquisition that has triggered a max-age restart is never
\* suspended until the old handle's close settles
C33_RestartDoesNotAwaitClose ==
  \A p \in Procs :
    ~(pc[p] = "gbAwaitClose" /\ waitOn[p] # NoHandle /\ hstate[waitOn[p]] = "closing")

\* the positions of the finally block's awaits
Teardown == {"unroute", "closePages", "closeContext"}

\* C34: the teardown of an extraction that obtained a context cancels the
\* timer, then detaches the route handler, then closes the pages, then
\* closes the context; a step that fails is followed by the next one, and
\* the value to return does not change
C34_TeardownOrder ==
  [][/\ xpc' \in Teardown => timeoutId' # "armed"
     /\ xpc = "unroute" /\ xpc' # xpc =>
          xpc' = "closePages" /\ context' = "open" /\ contextCloses' = 0
     /\ xpc = "closePages" /\ xpc' # xpc =>
          xpc' = "closeContext" /\ context' = "closed" /\ contextCloses' = 1
     /\ xpc = "closeContext" /\ xpc' # xpc => xpc' = "returned"
     /\ context' # context /\ context' = "closed" => xpc = "closePages"
     /\ xpc \in Teardown => xret' = xret]_vars

\* every teardown call has rejected, and the extraction has returned the
\* stream it found
C34_Witness ==
  /\ xpc = "returned"
  /\ teardownErrors = Teardown
  /\ context = "closed"
  /\ xret = "stream"

\* C35: a watchdog poll that finds the circuit not open clears
\* circuitOpenSince; when the watchdog exits, circuitOpenSince lies at least
\* CIRCUIT_BREAKER_EXIT_THRESHOLD back and no poll since then has found the
\* circuit closed
C35_ExitOnlyAfterOpenSpan ==
  [][/\ lastPoll' # lastPoll /\ ~IsCircuitOpen(circuitOpenUntil, now)
          => circuitOpenSince' = NoTime
     /\ exitCode' = 1 =>
          /\ circuitOpenSince' # NoTime
          /\ now' - circuitOpenSince' >= CIRCUIT_BREAKER_EXIT_THRESHOLD
          /\ closedPollAt' < circuitOpenSince']_vars

\* a poll has fallen after the cool-down expired and before another failed
\* launch, and has cleared the time recorded while the circuit was open
C35_Witness ==
  /\ closedPollAt = now
  /\ circuitOpenSince = NoTime
  /\ consecutiveFailures >= CIRCUIT_BREAKER_THRESHOLD
  /\ circuitOpenUntil > WATCHDOG_INTERVAL
  /\ circuitOpenUntil <= now
  /\ Running

\* C36: the gauge reads 1 exactly when the circuit is open
\* (circuitOpenUntil > now) and 0 when it is closed
C36_GaugeFollowsCircuit ==
  circuitBreakerOpen = (IF IsCircuitOpen(circuitOpenUntil, now) THEN 1 ELSE 0)

\* C38: the passing of time leaves consecutiveFailures as it is, only a
\* launch that succeeds brings it to 0, and a launch that fails once the
\* threshold was reached counts one more failure and opens the circuit for
\* CIRCUIT_BREAKER_RESET_MS from that moment
C38_CoolDownKeepsCount ==
  [][/\ now' # now => consecutiveFailures' = consecutiveFailures
     /\ consecutiveFailures' < consecutiveFailures =>
          /\ consecutiveFailures' = 0
          /\ \E l \in Procs : lstate[l] = "pending" /\ lstate'[l] = "ok"
     /\ \A l \in Procs :
          lstate[l] = "pending" /\ lstate'[l] = "fail"
            /\ consecutiveFailures >= CIRCUIT_BREAKER_THRESHOLD =>
              /\ consecutiveFailures' = consecutiveFailures + 1
              /\ circuitOpenUntil' = now + CIRCUIT_BREAKER_RESET_MS]_vars

\* after a cool-down that ended without a successful launch, one more
\* failure has opened the circuit again
C38_Witness ==
  /\ consecutiveFailures > CIRCUIT_BREAKER_THRESHOLD
  /\ now >= CIRCUIT_BREAKER_RESET_MS
  /\ circuitOpenUntil = now + CIRCUIT_BREAKER_RESET_MS

\* C37: a script request whose URL matches PLAYER_DOMAIN_REGEX, and is not
\* the target manifest, is continued, whether or not its URL matches a
\* block pattern
C37_PlayerScriptContinued ==
  decision # "none" /\ request.resourceType = "script" /\ request.isPlayerScript
    /\ ~IsTarget(request.kind) => decision = "continue"

\* C39: while an idle timeout is scheduled and has neither fired nor been
\* cleared, activeCount is 0 and no task is admitted
C39_IdleTimerOnlyWhenIdle ==
  pendingTimers > 0 \/ idleTimer = "armed" =>
    /\ activeCount = 0
    /\ Admitted = {}

\* the last active task has completed and scheduled the timer, its caller
\* not yet resumed
C39_Witness ==
  /\ idleTimer = "armed"
  /\ pendingTimers = 1
  /\ activeCount = 0
  /\ browser # NoHandle
  /\ \E p \in Procs : pc[p] = "settled"

\* C40: the 'disconnected' event of a browser that is not the pool's
\* current handle leaves the reference to the current one in place
C40_StaleDisconnectKeepsReference ==
  [][\A h \in Handles :
       /\ hstate[h] \in {"live", "lost", "closing"}
       /\ hstate'[h] \in {"disconnected", "free"}
       /\ browser # h
       => browser' = browser]_vars

\* the browser replaced by a restart has finished closing after its
\* successor was launched, and the successor is still the pool's browser
C40_Witness ==
  \E h \in Handles :
    /\ hstate[h] = "free"
    /\ browser # NoHandle
    /\ h < browser
    /\ hstate[browser] = "live"

====
